---- MODULE Spec2Model ----
(***************************************************************************)
(* Model of runr (src/index.ts): the exported helpers of the workflow      *)
(* dispatch front-end and the bookmark persistence on the config file.     *)
(*                                                                         *)
(* SpecPure : the pure helpers, each applied once to inputs drawn in Init. *)
(* Spec     : the config file and the runs of the tool that call           *)
(*            saveBookmark on it.                                          *)
(* SpecRun  : one run of runWorkflowCreation from start to exit, beside    *)
(*            another run of the tool that saves a bookmark.               *)
(***************************************************************************)
EXTENDS Integers, Sequences, FiniteSets, TLC

VARIABLES
    call,       \* SpecPure: the helper under evaluation and its arguments
    ret,        \* SpecPure: what the helper returned or threw
    file,       \* Spec: content of ./config.yml
    inst,       \* Spec: per run of the tool, its call of saveBookmark
    run         \* SpecRun: the position and the locals of runWorkflowCreation

vars == <<call, ret, file, inst, run>>

----------------------------------------------------------------------------
(* Bounds *)

MaxRepos == 2
MaxWorkflows == 3
MaxInputs == 2

----------------------------------------------------------------------------
(* JavaScript values.  Every value has the same shape so that values of    *)
(* different JavaScript types can be compared: t is the type tag, v the    *)
(* text of a primitive (the key, for an entry of an object), items the     *)
(* elements of an array, the entries of an object in insertion order, or   *)
(* the one value of an entry.                                              *)

Undefined == [t |-> "undefined", v |-> "", items |-> <<>>]
Null == [t |-> "null", v |-> "", items |-> <<>>]
Str(s) == [t |-> "string", v |-> s, items |-> <<>>]
Bool(b) == [t |-> "boolean", v |-> IF b THEN "true" ELSE "false", items |-> <<>>]
Num(digits) == [t |-> "number", v |-> digits, items |-> <<>>]
Arr(xs) == [t |-> "array", v |-> "", items |-> xs]
Entry(k, x) == [t |-> "entry", v |-> k, items |-> <<x>>]
Obj(entries) == [t |-> "object", v |-> "", items |-> entries]
Fn(widget, args) == [t |-> "function", v |-> widget, items |-> args]
Sym(description) == [t |-> "symbol", v |-> description, items |-> <<>>]

Key(e) == e.v
Val(e) == e.items[1]
Range(xs) == {xs[i] : i \in DOMAIN xs}

\* x == null || x === undefined, the test behind ?? and ?.
IsNullish(x) == x.t \in {"undefined", "null"}

\* ToBoolean, the test behind || and !
Truthy(x) ==
    CASE x.t \in {"undefined", "null"} -> FALSE
      [] x.t = "boolean" -> x.v = "true"
      [] x.t = "string" -> x.v # ""
      [] x.t = "number" -> x.v \notin {"0", "NaN"}
      [] OTHER -> TRUE

RECURSIVE JoinComma(_)
\* String(x), `${x}`
JSString(x) ==
    CASE x.t = "undefined" -> "undefined"
      [] x.t = "null" -> "null"
      [] x.t \in {"string", "boolean", "number"} -> x.v
      [] x.t = "symbol" -> "Symbol(" \o x.v \o ")"
      [] x.t = "array" -> JoinComma(x.items)
      [] OTHER -> "[object Object]"

JoinComma(xs) ==
    IF xs = <<>> THEN ""
    ELSE IF Len(xs) = 1 THEN (IF IsNullish(xs[1]) THEN "" ELSE JSString(xs[1]))
    ELSE (IF IsNullish(xs[1]) THEN "" ELSE JSString(xs[1])) \o "," \o JoinComma(Tail(xs))

\* o.k on a value that is not null or undefined: the own property, or
\* undefined (a primitive or an array has none of the keys used here)
Get(o, k) ==
    IF o.t = "object" /\ \E i \in 1..Len(o.items) : Key(o.items[i]) = k
    THEN Val(o.items[CHOOSE i \in 1..Len(o.items) : Key(o.items[i]) = k])
    ELSE Undefined

\* UTF-16 code units of the strings that are ever compared by sort()
CodeUnits(s) ==
    CASE s = "" -> <<>>
      [] s = "B" -> <<66>>
      [] s = "a" -> <<97>>
      [] s = "ab" -> <<97, 98>>
      [] s = "b" -> <<98>>
      [] s = "[object Object]" ->
            <<91, 111, 98, 106, 101, 99, 116, 32, 79, 98, 106, 101, 99, 116, 93>>

RECURSIVE LexLess(_, _)
\* u < v on strings: code unit by code unit, a proper prefix is smaller
LexLess(u, v) ==
    IF v = <<>> THEN FALSE
    ELSE IF u = <<>> THEN TRUE
    ELSE IF u[1] < v[1] THEN TRUE
    ELSE IF u[1] > v[1] THEN FALSE
    ELSE LexLess(Tail(u), Tail(v))

\* the default comparator of Array.prototype.sort: x sorts before y when
\* String(x) < String(y)
SortsBefore(x, y) == LexLess(CodeUnits(JSString(x)), CodeUnits(JSString(y)))

RECURSIVE InsertStable(_, _)
\* x goes behind every element that does not sort after it
InsertStable(x, sorted) ==
    IF sorted = <<>> THEN <<x>>
    ELSE IF SortsBefore(x, sorted[1])
         THEN <<x>> \o sorted
         ELSE <<sorted[1]>> \o InsertStable(x, Tail(sorted))

RECURSIVE ArraySort(_)
\* Array.prototype.sort() without a comparator: elements are ordered by
\* their string forms and the sort is stable (ES2019; Node >= 18, Bun)
ArraySort(xs) ==
    IF xs = <<>> THEN <<>>
    ELSE InsertStable(xs[Len(xs)], ArraySort(SubSeq(xs, 1, Len(xs) - 1)))

RECURSIVE ArrayFilter(_, _)
\* Array.prototype.filter, the predicate given as the set of kept elements
ArrayFilter(xs, keep) ==
    IF xs = <<>> THEN <<>>
    ELSE (IF xs[1] \in keep THEN <<xs[1]>> ELSE <<>>) \o ArrayFilter(Tail(xs), keep)

\* Array.prototype.find, the predicate given as the set of matching
\* elements: index of the first match, 0 if there is none
FindIndex(xs, matching) ==
    IF \E i \in 1..Len(xs) : xs[i] \in matching
    THEN CHOOSE i \in 1..Len(xs) :
            /\ xs[i] \in matching
            /\ \A j \in 1..(i - 1) : xs[j] \notin matching
    ELSE 0

\* the keys that are array indices: their numeric value, -1 for the others
ArrayIndex(k) ==
    CASE k = "2" -> 2
      [] k = "10" -> 10
      [] OTHER -> -1

RECURSIVE InsertByIndex(_, _)
InsertByIndex(e, sorted) ==
    IF sorted = <<>> THEN <<e>>
    ELSE IF ArrayIndex(Key(e)) < ArrayIndex(Key(sorted[1]))
         THEN <<e>> \o sorted
         ELSE <<sorted[1]>> \o InsertByIndex(e, Tail(sorted))

RECURSIVE SortByIndex(_)
SortByIndex(es) ==
    IF es = <<>> THEN <<>>
    ELSE InsertByIndex(es[Len(es)], SortByIndex(SubSeq(es, 1, Len(es) - 1)))

\* the order in which an object enumerates its own properties: the
\* array-index keys first in ascending numeric order, then the other keys
\* in the order they were added
OwnPropertyOrder(entries) ==
    SortByIndex(SelectSeq(entries, LAMBDA e : ArrayIndex(Key(e)) >= 0))
        \o SelectSeq(entries, LAMBDA e : ArrayIndex(Key(e)) < 0)

\* the object that results from adding the entries one after the other
ObjectFrom(entries) == Obj(OwnPropertyOrder(entries))

\* Object.entries(o)
ObjectEntries(o) == o.items

\* o[k] = x on an object: replaces the value of an existing key, adds a
\* new key
ObjectSet(o, k, x) ==
    IF \E i \in 1..Len(o.items) : Key(o.items[i]) = k
    THEN Obj([i \in 1..Len(o.items) |->
                IF Key(o.items[i]) = k THEN Entry(k, x) ELSE o.items[i]])
    ELSE ObjectFrom(Append(o.items, Entry(k, x)))

----------------------------------------------------------------------------
(* The accessors on the loaded configuration *)

getRepoListUnsorted(config) ==
    Arr([i \in 1..Len(Get(config, "repos").items) |->
            Get(Get(config, "repos").items[i], "name")])

getRepoList(config) ==
    LET repos == Get(config, "repos").items
    IN Arr(ArraySort([i \in 1..Len(repos) |-> Get(repos[i], "name")]))

\* config.repos.find((r) => r.name === repoName): its index, 0 if none
FindRepo(config, repoName) ==
    LET repos == Get(config, "repos").items
    IN FindIndex([i \in 1..Len(repos) |-> Get(repos[i], "name")], {Str(repoName)})

getBranchesForRepo(config, repoName) ==
    LET i == FindRepo(config, repoName)
        branches == IF i = 0 THEN Undefined
                    ELSE Get(Get(config, "repos").items[i], "branches")
    IN IF Truthy(branches) THEN branches ELSE Arr(<<>>)

getBookmarksForRepoLast(config, repoName) ==
    LET repos == Get(config, "repos").items
        hits == {j \in 1..Len(repos) : Get(repos[j], "name") = Str(repoName)}
        i == IF hits = {} THEN 0 ELSE CHOOSE j \in hits : \A h \in hits : h <= j
        bookmarks == IF i = 0 THEN Undefined ELSE Get(repos[i], "bookmarks")
    IN IF Truthy(bookmarks) THEN bookmarks ELSE Arr(<<>>)

getBookmarksForRepo(config, repoName) ==
    LET i == FindRepo(config, repoName)
        bookmarks == IF i = 0 THEN Undefined
                     ELSE Get(Get(config, "repos").items[i], "bookmarks")
    IN IF Truthy(bookmarks) THEN bookmarks ELSE Arr(<<>>)

----------------------------------------------------------------------------
(* Workflow list *)

filterActiveWorkflowsNotDisabled(workflows) ==
    ArraySort(ArrayFilter(workflows,
                 {w \in Range(workflows) : Get(w, "state") # Str("disabled_manually")}))

filterActiveWorkflowsUnstable(workflows) ==
    LET active == ArrayFilter(workflows,
                     {w \in Range(workflows) : Get(w, "state") = Str("active")})
    IN [i \in 1..Len(active) |-> active[Len(active) + 1 - i]]

filterActiveWorkflows(workflows) ==
    ArraySort(ArrayFilter(workflows,
                 {w \in Range(workflows) : Get(w, "state") = Str("active")}))

----------------------------------------------------------------------------
(* YAML text.  A node is a plain or quoted scalar, a sequence, a mapping   *)
(* or a key/value pair of a mapping; like the JavaScript values, all       *)
(* nodes have one shape.  A file is missing, not YAML at all, or a         *)
(* document.                                                               *)

Plain(s) == [y |-> "plain", v |-> s, items |-> <<>>]
Quoted(s) == [y |-> "quoted", v |-> s, items |-> <<>>]
Seq_(ns) == [y |-> "seq", v |-> "", items |-> ns]
Pair(k, n) == [y |-> "pair", v |-> k, items |-> <<n>>]
Map(ps) == [y |-> "map", v |-> "", items |-> ps]

Missing == [kind |-> "missing", doc |-> Plain("")]
Garbage == [kind |-> "garbage", doc |-> Plain("")]
Document(n) == [kind |-> "yaml", doc |-> n]

\* the value a plain scalar resolves to (YAML 1.2 core schema)
ResolvePlain(s) ==
    CASE s \in {"", "null", "~"} -> Null
      [] s \in {"true", "false"} -> Bool(s = "true")
      [] s \in {"0", "2", "10", "30"} -> Num(s)
      [] OTHER -> Str(s)

RECURSIVE YamlToJS(_)
YamlToJS(n) ==
    CASE n.y = "plain" -> ResolvePlain(n.v)
      [] n.y = "quoted" -> Str(n.v)
      [] n.y = "seq" -> Arr([i \in 1..Len(n.items) |-> YamlToJS(n.items[i])])
      [] n.y = "map" ->
            ObjectFrom([i \in 1..Len(n.items) |->
                          Entry(n.items[i].v, YamlToJS(n.items[i].items[1]))])

RECURSIVE JSToYaml(_)
\* a string is quoted when it would not read back as a string; a property
\* whose value is undefined is left out of its mapping
JSToYaml(x) ==
    CASE x.t = "string" ->
            IF ResolvePlain(x.v).t = "string" THEN Plain(x.v) ELSE Quoted(x.v)
      [] x.t \in {"boolean", "number"} -> Plain(x.v)
      [] x.t \in {"null", "undefined"} -> Plain("null")
      [] x.t = "array" -> Seq_([i \in 1..Len(x.items) |-> JSToYaml(x.items[i])])
      [] x.t = "object" ->
            LET es == SelectSeq(ObjectEntries(x), LAMBDA e : Val(e).t # "undefined")
            IN Map([i \in 1..Len(es) |-> Pair(Key(es[i]), JSToYaml(Val(es[i])))])

\* parse(text) of the yaml package: the value, or a YAMLParseError
parseYaml(text) ==
    IF text.kind = "yaml"
    THEN [threw |-> FALSE, error |-> "", value |-> YamlToJS(text.doc)]
    ELSE [threw |-> TRUE, error |-> "YAMLParseError", value |-> Undefined]

\* stringify(value) of the yaml package
stringifyYaml(value) == Document(JSToYaml(value))

----------------------------------------------------------------------------
(* Workflow input schema *)

\* workflow_types.ts: the input declares the choice type
isChoiceInput(input) == Get(input, "type") = Str("choice")

\* ([name, input]) => ({ name, type, default, options, required })
ToWorkflowInput(e) ==
    LET input == Val(e)
        dflt == Get(input, "default")
    IN Obj(<<Entry("name", Str(Key(e))),
             Entry("type", Get(input, "type")),
             Entry("default", Str(JSString(IF IsNullish(dflt) THEN Str("") ELSE dflt))),
             Entry("options", IF isChoiceInput(input) THEN Get(input, "options") ELSE Undefined),
             Entry("required", Get(input, "required"))>>)

TypeError == [threw |-> TRUE, error |-> "TypeError", value |-> Undefined]

\* view is the outcome of `gh workflow view <name> -R <repo> --ref <branch>
\* --yaml`: whether the command failed, and its standard output
getWorkflowInputs(view) ==
    IF view.failed THEN [threw |-> TRUE, error |-> "ExecaError", value |-> Undefined]
    ELSE LET parsed == parseYaml(view.stdout) IN
    IF parsed.threw THEN parsed
    ELSE LET workflow == parsed.value IN
    IF IsNullish(workflow) THEN TypeError
    ELSE LET on == Get(workflow, "on") IN
    IF IsNullish(on) THEN TypeError
    ELSE LET dispatch == Get(on, "workflow_dispatch") IN
    IF IsNullish(dispatch) THEN TypeError
    ELSE LET inputs == Get(dispatch, "inputs")
             entries == IF IsNullish(inputs) THEN <<>> ELSE ObjectEntries(inputs)
         IN IF \E i \in 1..Len(entries) : IsNullish(Val(entries[i])) THEN TypeError
            ELSE [threw |-> FALSE, error |-> "",
                  value |-> Arr([i \in 1..Len(entries) |-> ToWorkflowInput(entries[i])])]

----------------------------------------------------------------------------
(* Prompts *)

\* one iteration of inputs.forEach: acc is the group built so far, the
\* diagnostics logged and the prompts executed
PromptFor(acc, input) ==
    LET name == Get(input, "name").v
        type == Get(input, "type")
        message == Str("Input " \o name)
        dflt == Get(input, "default")
        options == Get(input, "options")
    IN CASE type \in {Str("string"), Str("number"), Str("environment")} ->
              [acc EXCEPT !.createdGroup = ObjectSet(@, name,
                  Fn("text", <<message,
                               Str("Required? " \o JSString(Get(input, "required"))),
                               dflt>>))]
         [] type = Str("boolean") ->
              [acc EXCEPT !.createdGroup = ObjectSet(@, name,
                  Fn("select", <<message, Arr(<<Str("true"), Str("false")>>), dflt>>))]
         [] type = Str("choice") ->
              [acc EXCEPT !.createdGroup = ObjectSet(@, name,
                  Fn("select", <<message,
                                 IF IsNullish(options) THEN Arr(<<>>) ELSE options,
                                 dflt>>))]
         [] OTHER ->
              [acc EXCEPT !.logged = Append(@, "Invalid Input Type !")]

RECURSIVE ForEachInput(_, _)
ForEachInput(acc, inputs) ==
    IF inputs = <<>> THEN acc
    ELSE ForEachInput(PromptFor(acc, inputs[1]), Tail(inputs))

buildInputPromptsAbortOnInvalid(inputs) ==
    LET built == ForEachInput([createdGroup |-> Obj(<<>>), logged |-> <<>>, prompted |-> <<>>],
                              inputs)
    IN IF built.logged = <<>> THEN built
       ELSE [built EXCEPT !.createdGroup = Obj(<<>>)]

buildInputPrompts(inputs) ==
    ForEachInput([createdGroup |-> Obj(<<>>), logged |-> <<>>, prompted |-> <<>>], inputs)

----------------------------------------------------------------------------
(* Run arguments *)

RECURSIVE PushInputs(_, _)
\* workflowRunArgs.push("-f", `${key}=${value}`) for each entry
PushInputs(workflowRunArgs, entries) ==
    IF entries = <<>> THEN workflowRunArgs
    ELSE PushInputs(workflowRunArgs
                        \o <<"-f", Key(entries[1]) \o "=" \o JSString(Val(entries[1]))>>,
                    Tail(entries))

buildWorkflowRunArgsRefFirst(workflowName, repo, branch, inputGroup) ==
    PushInputs(<<"workflow", "run", workflowName, "--ref", branch, "-R", repo>>,
               ObjectEntries(inputGroup))

buildWorkflowRunArgs(workflowName, repo, branch, inputGroup) ==
    PushInputs(<<"workflow", "run", workflowName, "-R", repo, "--ref", branch>>,
               ObjectEntries(inputGroup))

----------------------------------------------------------------------------
(* Display block *)

\* the number of UTF-16 code units of the keys that are ever padded
StringLength(s) ==
    CASE s = "2" -> 1
      [] s = "10" -> 2
      [] s = "env" -> 3
      [] s = "debug" -> 5
      [] s = "release_channel" -> 15
      [] s = "deployment_target" -> 17

RECURSIVE Spaces(_)
Spaces(n) == IF n <= 0 THEN "" ELSE " " \o Spaces(n - 1)

\* String.prototype.padEnd(n): spaces are added behind s up to length n; a
\* string of n or more code units is returned as it is
padEnd(s, n) == s \o Spaces(n - StringLength(s))

padStart(s, n) == Spaces(n - StringLength(s)) \o s

RECURSIVE Join(_, _)
\* Array.prototype.join(separator) on an array of strings
Join(xs, separator) ==
    IF xs = <<>> THEN ""
    ELSE IF Len(xs) = 1 THEN xs[1]
    ELSE xs[1] \o separator \o Join(Tail(xs), separator)

buildDisplayInfoPadStart(workflowName, repo, branch, inputGroup) ==
    LET entries == ObjectEntries(inputGroup)
    IN Join(<<"Running Workflow : " \o workflowName,
              "Repo             : " \o repo,
              "Branch           : " \o branch,
              "",
              "Inputs :">>
            \o [i \in 1..Len(entries) |->
                  "  " \o padStart(Key(entries[i]), 15) \o " : " \o JSString(Val(entries[i]))],
            "\n")

buildDisplayInfo(workflowName, repo, branch, inputGroup) ==
    LET entries == ObjectEntries(inputGroup)
    IN Join(<<"Running Workflow : " \o workflowName,
              "Repo             : " \o repo,
              "Branch           : " \o branch,
              "",
              "Inputs :">>
            \o [i \in 1..Len(entries) |->
                  "  " \o padEnd(Key(entries[i]), 15) \o " : " \o JSString(Val(entries[i]))],
            "\n")

----------------------------------------------------------------------------
(* The values the helpers are applied to *)

BoundedSeqs(S, n) == UNION {[1..k -> S] : k \in 0..n}

DistinctSeqs(S, n) ==
    {q \in BoundedSeqs(S, n) : \A i, j \in 1..Len(q) : q[i] = q[j] => i = j}

Bookmark(nickname, workflow, branch, inputs) ==
    Obj(<<Entry("nickname", Str(nickname)), Entry("workflow", Str(workflow)),
          Entry("branch", Str(branch)), Entry("inputs", inputs)>>)

BookmarkProd ==
    Bookmark("prod", "deploy.yml", "main",
             Obj(<<Entry("env", Str("prod")), Entry("debug", Str("false"))>>))

BookmarkTest == Bookmark("test", "ci.yml", "dev", Obj(<<>>))

\* a repository entry; a field given as undefined is not in the entry
Repo(name, branches, bookmarks) ==
    Obj(SelectSeq(<<Entry("name", Str(name)), Entry("branches", branches),
                    Entry("bookmarks", bookmarks)>>,
                  LAMBDA e : Val(e).t # "undefined"))

Config(repos) == Obj(<<Entry("repos", Arr(repos))>>)

RepoNames == {"a", "ab", "B"}

Repos ==
    {Repo(n, f[1], f[2]) :
        n \in RepoNames,
        f \in {<<Undefined, Undefined>>,
               <<Arr(<<>>), Arr(<<>>)>>,
               <<Arr(<<Str("main"), Str("dev")>>), Null>>,
               <<Arr(<<Str("dev")>>), Arr(<<BookmarkProd>>)>>,
               <<Arr(<<Str("dev"), Str("main")>>), Arr(<<BookmarkTest, BookmarkProd>>)>>}}

Configs == {Config(rs) : rs \in BoundedSeqs(Repos, MaxRepos)}

Workflow(name, id, state) ==
    Obj(<<Entry("name", Str(name)), Entry("path", Str(".github/workflows/" \o name)),
          Entry("id", Num(id)), Entry("state", Str(state))>>)

Workflows ==
    {Workflow("b", "2", "active"), Workflow("a", "10", "active"),
     Workflow("ab", "30", "disabled_manually"), Workflow("B", "0", "Active")}

InputKeys == {"env", "debug", "2", "10"}

\* declarations of workflow_dispatch inputs, as they stand in a workflow file
InputDeclarations ==
    {Map(<<Pair("description", Plain("where")), Pair("required", Plain("true")),
           Pair("type", Plain("choice")),
           Pair("options", Seq_(<<Plain("dev"), Plain("prod")>>)),
           Pair("default", Plain("dev"))>>),
     Map(<<Pair("required", Plain("false")), Pair("type", Plain("string")),
           Pair("default", Quoted("1.0.0"))>>),
     Map(<<Pair("type", Plain("boolean")), Pair("default", Plain("false"))>>),
     Map(<<Pair("type", Plain("float")), Pair("options", Seq_(<<Plain("x")>>))>>),
     Map(<<Pair("type", Plain("number")), Pair("default", Plain("30")),
           Pair("required", Plain("true"))>>)}

InputMaps ==
    {Map([i \in 1..Len(ks) |-> Pair(ks[i], ds[i])]) :
        <<ks, ds>> \in {kd \in DistinctSeqs(InputKeys, MaxInputs)
                                  \X BoundedSeqs(InputDeclarations, MaxInputs) :
                            Len(kd[1]) = Len(kd[2])}}

\* the forms of the trigger: on: workflow_dispatch, and under
\* on: a workflow_dispatch key with nothing, with an empty mapping, with an
\* inputs key with nothing, or with an input mapping
Triggers ==
    {Plain("workflow_dispatch"),
     Map(<<Pair("push", Plain("")), Pair("workflow_dispatch", Plain(""))>>),
     Map(<<Pair("workflow_dispatch", Map(<<>>))>>),
     Map(<<Pair("workflow_dispatch", Map(<<Pair("inputs", Plain(""))>>))>>)}
    \cup {Map(<<Pair("workflow_dispatch", Map(<<Pair("inputs", m)>>))>>) : m \in InputMaps}

WorkflowViews ==
    {[failed |-> TRUE, stdout |-> Garbage], [failed |-> FALSE, stdout |-> Garbage]}
    \cup {[failed |-> FALSE,
           stdout |-> Document(Map(<<Pair("name", Plain("Deploy")), Pair("on", t)>>))] :
            t \in Triggers}

\* WorkflowInput values, as getWorkflowInputs produces them and others
WorkflowInputs ==
    {Obj(<<Entry("name", Str(n)), Entry("type", f[1]), Entry("default", Str(f[2])),
           Entry("options", f[3]), Entry("required", Bool(f[4]))>>) :
        n \in {"env", "debug", "2"},
        f \in {<<Str("string"), "1.0.0", Undefined, FALSE>>,
               <<Str("number"), "30", Undefined, TRUE>>,
               <<Str("environment"), "", Undefined, TRUE>>,
               <<Str("boolean"), "false", Undefined, FALSE>>,
               <<Str("choice"), "dev", Arr(<<Str("dev"), Str("prod")>>), TRUE>>,
               <<Str("float"), "", Undefined, FALSE>>,
               <<Undefined, "", Undefined, FALSE>>}}

InputGroups ==
    {ObjectFrom([i \in 1..Len(ks) |-> Entry(ks[i], xs[i])]) :
        <<ks, xs>> \in {kx \in DistinctSeqs(InputKeys, MaxInputs)
                                  \X BoundedSeqs({Str("staging"), Str(""), Bool(FALSE), Num("30")},
                                                 MaxInputs) :
                            Len(kx[1]) = Len(kx[2])}}

\* how a subprocess started by execa ends: exit code 0, a non-zero exit
\* code, or no process at all
ExecaOutcomes ==
    {[failed |-> FALSE, cause |-> ""],
     [failed |-> TRUE, cause |-> "exit code 1"],
     [failed |-> TRUE, cause |-> "ENOENT"]}

checkLoginPropagating(auth) ==
    IF auth.cause = "ENOENT"
    THEN [threw |-> TRUE, error |-> "ExecaError", value |-> Undefined]
    ELSE [threw |-> FALSE, error |-> "", value |-> Bool(~auth.failed)]

\* try { await execa`gh auth status`; return true } catch (e) { return false }
checkLogin(auth) == [threw |-> FALSE, error |-> "", value |-> Bool(~auth.failed)]

DisplayKeys == {"env", "10", "release_channel", "deployment_target"}

\* input groups as the confirmation shows them: collected answers, or the
\* inputs of a bookmark
DisplayGroups ==
    {ObjectFrom([i \in 1..Len(ks) |-> Entry(ks[i], xs[i])]) :
        <<ks, xs>> \in {kx \in DistinctSeqs(DisplayKeys, MaxInputs)
                                  \X BoundedSeqs({Str("prod"), Str(""), Bool(FALSE)},
                                                 MaxInputs) :
                            Len(kx[1]) = Len(kx[2])}}

----------------------------------------------------------------------------
(* SpecPure: one helper applied to one choice of arguments *)

Pending == [status |-> "pending", value |-> Undefined]
Returned(x) == [status |-> "returned", value |-> x]
Threw(e) == [status |-> "threw", value |-> Str(e)]

NoInstances == <<>>

\* runWorkflowCreation before it is called: the position, the exit code
\* (-1 while the process lives), what the run has done so far (phases
\* entered, commands issued, prompts shown, messages logged, calls of
\* saveBookmark), which of its commands and loads of the config failed,
\* and its local variables
NoRun ==
    [pc |-> "off", exitCode |-> -1,
     phases |-> <<>>, cmds |-> <<>>, prompts |-> <<>>, logged |-> <<>>, saves |-> 0,
     failures |-> <<>>,
     isLoggedIn |-> Undefined, config |-> Undefined, repo |-> Undefined,
     branch |-> Undefined, activeWorkflows |-> Undefined, bookmarks |-> Undefined,
     selection |-> Undefined, selectedWorkflowName |-> Undefined,
     actualBranch |-> Undefined, inputsArray |-> Undefined,
     createdGroup |-> Undefined, results |-> Undefined, inputGroup |-> Undefined,
     shouldSaveBookmark |-> Undefined, nickname |-> Undefined,
     bookmarkToSave |-> Undefined, workflowRunArgs |-> <<>>, displayInfo |-> "",
     shouldContinue |-> Undefined, shouldOpen |-> Undefined]

InitPure ==
    /\ file = Missing
    /\ inst = NoInstances
    /\ run = NoRun
    /\ ret = Pending
    /\ \/ \E c \in Configs : call = [fn |-> "getRepoList", args |-> <<c>>]
       \/ \E c \in Configs, n \in RepoNames \cup {"b"} :
            call = [fn |-> "getBranchesForRepo", args |-> <<c, n>>]
       \/ \E c \in Configs, n \in RepoNames \cup {"b"} :
            call = [fn |-> "getBookmarksForRepo", args |-> <<c, n>>]
       \/ \E ws \in BoundedSeqs(Workflows, MaxWorkflows) :
            call = [fn |-> "filterActiveWorkflows", args |-> <<ws>>]
       \/ \E view \in WorkflowViews :
            call = [fn |-> "getWorkflowInputs", args |-> <<view>>]
       \/ \E inputs \in BoundedSeqs(WorkflowInputs, MaxInputs) :
            call = [fn |-> "buildInputPrompts", args |-> <<inputs>>]
       \/ \E w \in {"Deploy", "ci.yml"}, b \in {"main", "dev"}, g \in InputGroups :
            call = [fn |-> "buildWorkflowRunArgs", args |-> <<w, "owner/repo", b, g>>]
       \/ \E w \in {"Deploy", "ci.yml"}, b \in {"main", "dev"}, g \in DisplayGroups :
            call = [fn |-> "buildDisplayInfo", args |-> <<w, "owner/repo", b, g>>]
       \/ \E auth \in ExecaOutcomes :
            call = [fn |-> "checkLogin", args |-> <<auth>>]

Apply(fn, result) ==
    /\ call.fn = fn
    /\ ret.status = "pending"
    /\ ret' = result
    /\ UNCHANGED <<call, file, inst, run>>

CallGetRepoList == Apply("getRepoList", Returned(getRepoList(call.args[1])))

CallGetBranchesForRepo ==
    Apply("getBranchesForRepo", Returned(getBranchesForRepo(call.args[1], call.args[2])))

CallGetBookmarksForRepo ==
    Apply("getBookmarksForRepo", Returned(getBookmarksForRepo(call.args[1], call.args[2])))

CallFilterActiveWorkflows ==
    Apply("filterActiveWorkflows", Returned(filterActiveWorkflows(call.args[1])))

CallGetWorkflowInputs ==
    LET r == getWorkflowInputs(call.args[1])
    IN Apply("getWorkflowInputs", IF r.threw THEN Threw(r.error) ELSE Returned(r.value))

CallBuildInputPrompts ==
    Apply("buildInputPrompts", Returned(buildInputPrompts(call.args[1])))

CallBuildWorkflowRunArgs ==
    Apply("buildWorkflowRunArgs",
          Returned(buildWorkflowRunArgs(call.args[1], call.args[2], call.args[3], call.args[4])))

CallBuildDisplayInfo ==
    Apply("buildDisplayInfo",
          Returned(buildDisplayInfo(call.args[1], call.args[2], call.args[3], call.args[4])))

CallCheckLogin ==
    LET r == checkLogin(call.args[1])
    IN Apply("checkLogin", IF r.threw THEN Threw(r.error) ELSE Returned(r.value))

NextPure ==
    \/ CallGetRepoList
    \/ CallGetBranchesForRepo
    \/ CallGetBookmarksForRepo
    \/ CallFilterActiveWorkflows
    \/ CallGetWorkflowInputs
    \/ CallBuildInputPrompts
    \/ CallBuildWorkflowRunArgs
    \/ CallBuildDisplayInfo
    \/ CallCheckLogin

SpecPure == InitPure /\ [][NextPure]_vars

----------------------------------------------------------------------------
(* Bookmark persistence *)

\* readFile(configPath, "utf8")
readFile(f) ==
    IF f.kind = "missing"
    THEN [threw |-> TRUE, error |-> "ENOENT", value |-> Garbage]
    ELSE [threw |-> FALSE, error |-> "", value |-> f]

\* repo.bookmarks = [] when it is missing, then repo.bookmarks.push(bookmark)
PushBookmark(repo, bookmark) ==
    LET listed == IF Truthy(Get(repo, "bookmarks")) THEN repo
                  ELSE ObjectSet(repo, "bookmarks", Arr(<<>>))
    IN ObjectSet(listed, "bookmarks", Arr(Append(Get(listed, "bookmarks").items, bookmark)))

saveBookmarkAnonymousError(configText, repoName, bookmark) ==
    LET parsed == parseYaml(configText)
        config == parsed.value
        i == FindRepo(config, repoName)
        repos == Get(config, "repos").items
    IN IF parsed.threw THEN [threw |-> TRUE, error |-> parsed.error, value |-> Garbage]
       ELSE IF i = 0
       THEN [threw |-> TRUE, error |-> "Repository not found in config", value |-> Garbage]
       ELSE [threw |-> FALSE, error |-> "",
             value |-> stringifyYaml(ObjectSet(config, "repos",
                          Arr([repos EXCEPT ![i] = PushBookmark(repos[i], bookmark)])))]

saveBookmarkReplacing(configText, repoName, bookmark) ==
    LET parsed == parseYaml(configText)
        config == parsed.value
        i == FindRepo(config, repoName)
        repos == Get(config, "repos").items
    IN IF parsed.threw THEN [threw |-> TRUE, error |-> parsed.error, value |-> Garbage]
       ELSE IF i = 0
       THEN [threw |-> TRUE,
             error |-> "Repository " \o repoName \o " not found in config",
             value |-> Garbage]
       ELSE [threw |-> FALSE, error |-> "",
             value |-> stringifyYaml(ObjectSet(config, "repos",
                          Arr([repos EXCEPT ![i] =
                                  ObjectSet(repos[i], "bookmarks", Arr(<<bookmark>>))])))]

saveBookmarkLastMatching(configText, repoName, bookmark) ==
    LET parsed == parseYaml(configText)
        config == parsed.value
        repos == Get(config, "repos").items
        hits == {j \in 1..Len(repos) : Get(repos[j], "name") = Str(repoName)}
        i == IF hits = {} THEN 0 ELSE CHOOSE j \in hits : \A h \in hits : h <= j
    IN IF parsed.threw THEN [threw |-> TRUE, error |-> parsed.error, value |-> Garbage]
       ELSE IF i = 0
       THEN [threw |-> TRUE,
             error |-> "Repository " \o repoName \o " not found in config",
             value |-> Garbage]
       ELSE [threw |-> FALSE, error |-> "",
             value |-> stringifyYaml(ObjectSet(config, "repos",
                          Arr([repos EXCEPT ![i] = PushBookmark(repos[i], bookmark)])))]

saveBookmarkAllMatching(configText, repoName, bookmark) ==
    LET parsed == parseYaml(configText)
        config == parsed.value
        i == FindRepo(config, repoName)
        repos == Get(config, "repos").items
    IN IF parsed.threw THEN [threw |-> TRUE, error |-> parsed.error, value |-> Garbage]
       ELSE IF i = 0
       THEN [threw |-> TRUE,
             error |-> "Repository " \o repoName \o " not found in config",
             value |-> Garbage]
       ELSE [threw |-> FALSE, error |-> "",
             value |-> stringifyYaml(ObjectSet(config, "repos",
                          Arr([j \in 1..Len(repos) |->
                                 IF Get(repos[j], "name") = Str(repoName)
                                 THEN PushBookmark(repos[j], bookmark)
                                 ELSE repos[j]])))]

\* saveBookmark from the text it read to the text it writes: parse, find
\* the repository or throw, push the bookmark, stringify
saveBookmark(configText, repoName, bookmark) ==
    LET parsed == parseYaml(configText)
        config == parsed.value
        i == FindRepo(config, repoName)
        repos == Get(config, "repos").items
    IN IF parsed.threw THEN [threw |-> TRUE, error |-> parsed.error, value |-> Garbage]
       ELSE IF i = 0
       THEN [threw |-> TRUE,
             error |-> "Repository " \o repoName \o " not found in config",
             value |-> Garbage]
       ELSE [threw |-> FALSE, error |-> "",
             value |-> stringifyYaml(ObjectSet(config, "repos",
                          Arr([repos EXCEPT ![i] = PushBookmark(repos[i], bookmark)])))]

----------------------------------------------------------------------------
(* Spec: runs of the tool saving bookmarks to one config file *)

Instances == {"first", "second"}

SaveRepoNames == {"a", "ab"}

SavedRepos ==
    {Repo(n, Arr(<<Str("main")>>), bm) :
        n \in SaveRepoNames, bm \in {Undefined, Arr(<<BookmarkProd>>)}}
    \cup {Repo("a", Arr(<<Str("main")>>), Null)}

InitialFiles ==
    {Missing, Garbage}
    \cup {stringifyYaml(Config(rs)) : rs \in BoundedSeqs(SavedRepos, MaxRepos)}

\* an instance that has not called saveBookmark yet
Idle ==
    [pc |-> "idle", repoName |-> "", bookmark |-> Undefined, configText |-> Garbage,
     written |-> Garbage, error |-> ""]

Init ==
    /\ call = [fn |-> "", args |-> <<>>]
    /\ ret = Pending
    /\ file \in InitialFiles
    /\ inst = [p \in Instances |-> Idle]
    /\ run = NoRun

\* an instance enters saveBookmark(CONFIG_PATH, repoName, bookmark), which
\* a run of the tool does at most once
SaveBookmarkCall(p) ==
    /\ inst[p].pc = "idle"
    /\ \E n \in {"a", "B"}, b \in {BookmarkProd, BookmarkTest} :
         inst' = [inst EXCEPT ![p] = [@ EXCEPT !.pc = "readFile", !.repoName = n,
                                               !.bookmark = b]]
    /\ UNCHANGED <<call, ret, file, run>>

SaveBookmarkReadCached(p) ==
    /\ inst[p].pc = "readFile"
    /\ LET r == readFile(file)
       IN inst' = [inst EXCEPT ![p] =
                      IF r.threw THEN [@ EXCEPT !.pc = "failed", !.error = r.error]
                      ELSE [@ EXCEPT !.pc = "update",
                                     !.configText = stringifyYaml(run.config)]]
    /\ UNCHANGED <<call, ret, file, run>>

\* await readFile resolves or rejects
SaveBookmarkRead(p) ==
    /\ inst[p].pc = "readFile"
    /\ LET r == readFile(file)
       IN inst' = [inst EXCEPT ![p] =
                      IF r.threw THEN [@ EXCEPT !.pc = "failed", !.error = r.error]
                      ELSE [@ EXCEPT !.pc = "update", !.configText = r.value]]
    /\ UNCHANGED <<call, ret, file, run>>

SaveBookmarkWriteFresh(p) ==
    /\ inst[p].pc = "update"
    /\ LET r == saveBookmark(file, inst[p].repoName, inst[p].bookmark)
       IN IF r.threw
          THEN /\ inst' = [inst EXCEPT ![p] = [@ EXCEPT !.pc = "failed", !.error = r.error]]
               /\ file' = file
          ELSE \/ /\ file' = r.value
                  /\ inst' = [inst EXCEPT ![p] = [@ EXCEPT !.pc = "done", !.written = r.value]]
               \/ /\ file' \in {file, Garbage}
                  /\ inst' = [inst EXCEPT ![p] = [@ EXCEPT !.pc = "failed", !.error = "EIO"]]
    /\ UNCHANGED <<call, ret, run>>

\* the rest of saveBookmark: it throws, or it writes the file; a write
\* that fails leaves the file as it was or truncated
SaveBookmarkWrite(p) ==
    /\ inst[p].pc = "update"
    /\ LET r == saveBookmark(inst[p].configText, inst[p].repoName, inst[p].bookmark)
       IN IF r.threw
          THEN /\ inst' = [inst EXCEPT ![p] = [@ EXCEPT !.pc = "failed", !.error = r.error]]
               /\ file' = file
          ELSE \/ /\ file' = r.value
                  /\ inst' = [inst EXCEPT ![p] = [@ EXCEPT !.pc = "done", !.written = r.value]]
               \/ /\ file' \in {file, Garbage}
                  /\ inst' = [inst EXCEPT ![p] = [@ EXCEPT !.pc = "failed", !.error = "EIO"]]
    /\ UNCHANGED <<call, ret, run>>

Next ==
    \E p \in Instances :
        \/ SaveBookmarkCall(p)
        \/ SaveBookmarkRead(p)
        \/ SaveBookmarkWrite(p)

Spec == Init /\ [][Next]_vars

----------------------------------------------------------------------------
(* The external commands and the prompt toolkit *)

\* readFile, then parse
loadConfig(f) ==
    LET text == readFile(f)
    IN IF text.threw THEN [threw |-> TRUE, error |-> text.error, value |-> Undefined]
       ELSE parseYaml(text.value)

\* standard output of `gh ... --json`: JSON text of a value, or not JSON
JsonText(x) == [kind |-> "json", value |-> x]
NotJson == [kind |-> "garbage", value |-> Undefined]

JSONparse(text) ==
    IF text.kind = "json" THEN [threw |-> FALSE, error |-> "", value |-> text.value]
    ELSE [threw |-> TRUE, error |-> "SyntaxError", value |-> Undefined]

\* listWorkflows from the outcome of the command
listWorkflows(list) ==
    IF list.failed THEN [threw |-> TRUE, error |-> "ExecaError", value |-> Undefined]
    ELSE JSONparse(list.stdout)

\* what a cancelled prompt resolves to
Cancel == Sym("clack:cancel")

\* select({options}): the value of one of the options, or the cancel
\* symbol; a prompt without options has nothing to show and may also fail
SelectOutcomes(options) ==
    {[threw |-> FALSE, error |-> "", value |-> v] : v \in Range(options) \cup {Cancel}}
    \cup (IF options = <<>>
          THEN {[threw |-> TRUE, error |-> "TypeError", value |-> Undefined]}
          ELSE {})

\* confirm({message}): yes, no, or the cancel symbol
ConfirmOutcomes == {Bool(TRUE), Bool(FALSE), Cancel}

\* the colon-free pieces of the strings that are ever split
Pieces ==
    {"", "bookmark", "workflow", "Symbol(clack", "cancel)", "undefined",
     "0", "1", "2", "10", "30"}

\* s.split(":"): the pieces whose join with ":" is s
Split(s) ==
    CHOOSE parts \in UNION {[1..k -> Pieces] : k \in 1..3} : Join(parts, ":") = s

\* s.startsWith(prefix ":") for a colon-free prefix
StartsWith(s, prefix) == Len(Split(s)) >= 2 /\ Split(s)[1] = prefix

\* parseInt(s) for the pieces: the digits, NaN without leading digits
parseInt(s) == IF s \in {"0", "1", "2", "10", "30"} THEN Num(s) ELSE Num("NaN")

\* xs[i] for a number i: the element, undefined outside the array
At(xs, i) ==
    CASE i = Num("0") /\ Len(xs) >= 1 -> xs[1]
      [] i = Num("1") /\ Len(xs) >= 2 -> xs[2]
      [] i = Num("2") /\ Len(xs) >= 3 -> xs[3]
      [] OTHER -> Undefined

\* `${idx}` for an array index
IndexString(idx) == CASE idx = 0 -> "0" [] idx = 1 -> "1" [] idx = 2 -> "2"

----------------------------------------------------------------------------
(* SpecRun: what one run of the tool meets *)

Min(a, b) == IF a < b THEN a ELSE b

RunRepos ==
    <<Repo("ab", Arr(<<Str("main")>>), Undefined),
      Repo("a", Arr(<<Str("main"), Str("dev")>>), Arr(<<BookmarkProd, BookmarkTest>>)),
      Repo("a", Arr(<<Str("dev")>>), Null)>>

RunFiles ==
    {Missing, Garbage}
    \cup {stringifyYaml(Config(SubSeq(RunRepos, 1, k))) : k \in 1..Min(MaxRepos, 3)}

RunWorkflows ==
    <<Workflow("b", "2", "active"),
      Workflow("ab", "30", "disabled_manually"),
      Obj(<<Entry("name", Str("a")), Entry("path", Str(".github/workflows/a")),
            Entry("id", Str("10")), Entry("state", Str("active"))>>)>>

ListOutcomes ==
    {[failed |-> TRUE, stdout |-> NotJson], [failed |-> FALSE, stdout |-> NotJson],
     [failed |-> FALSE,
      stdout |-> JsonText(Arr(SubSeq(RunWorkflows, 1, Min(MaxWorkflows, 3))))]}

RunInputs ==
    <<Pair("env", Map(<<Pair("type", Plain("choice")),
                        Pair("options", Seq_(<<Plain("dev"), Plain("prod")>>)),
                        Pair("default", Plain("dev"))>>)),
      Pair("debug", Map(<<Pair("type", Plain("choice")),
                          Pair("options", Seq_(<<Plain("true"), Plain("false")>>)),
                          Pair("default", Plain("false"))>>)),
      Pair("level", Map(<<Pair("type", Plain("float"))>>))>>

ViewOutcomes ==
    {[failed |-> TRUE, stdout |-> Garbage],
     [failed |-> FALSE,
      stdout |-> Document(Map(<<Pair("name", Plain("Deploy")),
                                Pair("on", Plain("workflow_dispatch"))>>))]}
    \cup {[failed |-> FALSE,
           stdout |-> Document(Map(<<Pair("name", Plain("Deploy")),
                    Pair("on", Map(<<Pair("workflow_dispatch",
                        Map(<<Pair("inputs", Map(SubSeq(RunInputs, 1, k)))>>))>>))>>))] :
            k \in {0, Min(MaxInputs, 3)}}

----------------------------------------------------------------------------
(* SpecRun: runWorkflowCreation, one action per await *)

\* process.exit(code) after a message, and the rejection of
\* runWorkflowCreation, which the caller logs before process.exit(1)
Exit(code, message) ==
    [run EXCEPT !.pc = "exited", !.exitCode = code, !.logged = Append(@, message)]

Fatal(error) == Exit(1, error)

InitRun ==
    /\ call = [fn |-> "", args |-> <<>>]
    /\ ret = Pending
    /\ file \in RunFiles
    /\ inst = [p \in Instances |-> Idle]
    /\ run = [NoRun EXCEPT !.pc = "start"]

\* runWorkflowCreation() up to await checkLogin()
Start ==
    /\ run.pc = "start"
    /\ run' = [run EXCEPT !.pc = "checkLogin",
                          !.phases = Append(@, "LoginCheck"),
                          !.cmds = Append(@, <<"gh", "auth", "status">>)]
    /\ UNCHANGED <<call, ret, file, inst>>

LoginCheckUngated ==
    /\ run.pc = "checkLogin"
    /\ \E auth \in ExecaOutcomes :
         LET r == checkLogin(auth)
         IN run' =
              IF r.threw THEN Fatal(r.error)
              ELSE [run EXCEPT !.pc = "loadConfig", !.isLoggedIn = r.value,
                               !.logged = Append(@, IF Truthy(r.value) THEN "Logged in to GitHub"
                                                    ELSE "You are not logged in!"),
                               !.phases = Append(@, "LoadConfig")]
    /\ UNCHANGED <<call, ret, file, inst>>

\* checkLogin settles; logged in, the run goes on to await loadConfig
LoginCheck ==
    /\ run.pc = "checkLogin"
    /\ \E auth \in ExecaOutcomes :
         LET r == checkLogin(auth)
         IN run' =
              IF r.threw THEN Fatal(r.error)
              ELSE IF Truthy(r.value)
              THEN [run EXCEPT !.pc = "loadConfig", !.isLoggedIn = r.value,
                               !.logged = Append(@, "Logged in to GitHub"),
                               !.phases = Append(@, "LoadConfig")]
              \* (the message, without its backquotes)
              ELSE [Exit(1, "You are not logged in! Run gh auth login to authenticate with GitHub")
                      EXCEPT !.isLoggedIn = r.value]
    /\ UNCHANGED <<call, ret, file, inst>>

\* loadConfig settles; the run lists the repositories and awaits the
\* repository prompt
LoadConfig ==
    /\ run.pc = "loadConfig"
    /\ LET r == loadConfig(file)
       IN run' =
            IF r.threw THEN [Fatal(r.error) EXCEPT !.failures = Append(@, "config")]
            ELSE [run EXCEPT !.pc = "selectRepo", !.config = r.value,
                             !.phases = Append(@, "SelectRepo"),
                             !.prompts = Append(@, "Pick a repository:")]
    /\ UNCHANGED <<call, ret, file, inst>>

\* the repository prompt settles; the run awaits the branch prompt
SelectRepo ==
    /\ run.pc = "selectRepo"
    /\ \E r \in SelectOutcomes(getRepoList(run.config).items) :
         run' =
            IF r.threw THEN Fatal(r.error)
            ELSE [run EXCEPT !.pc = "selectBranch", !.repo = r.value,
                             !.phases = Append(@, "SelectBranch"),
                             !.prompts = Append(@, "Pick a branch")]
    /\ UNCHANGED <<call, ret, file, inst>>

\* the branch prompt settles; the run awaits listWorkflows
SelectBranch ==
    /\ run.pc = "selectBranch"
    /\ \E r \in SelectOutcomes(getBranchesForRepo(run.config, JSString(run.repo)).items) :
         run' =
            IF r.threw THEN Fatal(r.error)
            ELSE [run EXCEPT !.pc = "listWorkflows", !.branch = r.value,
                             !.phases = Append(@, "ListWorkflows"),
                             !.cmds = Append(@, <<"gh", "workflow", "list", "-R",
                                                  JSString(run.repo), "--json",
                                                  "name,path,id,state">>)]
    /\ UNCHANGED <<call, ret, file, inst>>

\* listWorkflows settles; the run awaits the workflow-or-bookmark prompt
ListWorkflows ==
    /\ run.pc = "listWorkflows"
    /\ \E list \in ListOutcomes :
         LET r == listWorkflows(list)
         IN run' =
              IF r.threw
              THEN [Fatal(r.error) EXCEPT
                      !.failures = IF list.failed THEN Append(@, "list") ELSE @]
              ELSE [run EXCEPT !.pc = "selectWorkflow",
                               !.activeWorkflows = Arr(filterActiveWorkflows(r.value.items)),
                               !.bookmarks = getBookmarksForRepo(run.config, JSString(run.repo)),
                               !.phases = Append(@, "SelectWorkflowOrBookmark"),
                               !.prompts = Append(@, "Select Workflow or Bookmark")]
    /\ UNCHANGED <<call, ret, file, inst>>

\* the values of the options: bookmarks first, then the active workflows
WorkflowOptions ==
    [i \in 1..Len(run.bookmarks.items) |-> Str("bookmark:" \o IndexString(i - 1))]
    \o [i \in 1..Len(run.activeWorkflows.items) |->
          Str("workflow:" \o JSString(Get(run.activeWorkflows.items[i], "id")))]

\* intro("Running Workflow") up to await confirm: the arguments and the
\* summary are built from the workflow, the branch and the inputs in r
ToConfirmAndRun(r) ==
    LET args == buildWorkflowRunArgs(JSString(r.selectedWorkflowName), JSString(r.repo),
                                     JSString(r.actualBranch), r.inputGroup)
        info == buildDisplayInfo(JSString(r.selectedWorkflowName), JSString(r.repo),
                                 JSString(r.actualBranch), r.inputGroup)
    IN [r EXCEPT !.pc = "confirmRun",
                 !.workflowRunArgs = args,
                 !.displayInfo = info,
                 !.phases = Append(@, "ConfirmAndRun"),
                 !.prompts = Append(@, info \o "\n\nDo you want to continue?")]

\* the first active workflow with the id, undefined if there is none
FindWorkflow(activeWorkflows, id) ==
    LET hits == {i \in 1..Len(activeWorkflows) : Get(activeWorkflows[i], "id") = id}
    IN IF hits = {} THEN Undefined
       ELSE activeWorkflows[CHOOSE i \in hits : \A j \in hits : i <= j]

ResolveSelectionFirstWorkflow(selection, bookmarks, activeWorkflows) ==
    LET selectionStr == JSString(selection)
        second == IF Len(Split(selectionStr)) >= 2 THEN Split(selectionStr)[2] ELSE ""
        index == parseInt(second)
        bookmark == At(bookmarks, index)
        selectedWorkflow ==
            IF index = Num("NaN") /\ activeWorkflows # <<>> THEN activeWorkflows[1]
            ELSE FindWorkflow(activeWorkflows, index)
        resolved(message, path, x) == [error |-> message, path |-> path, value |-> x]
    IN IF StartsWith(selectionStr, "bookmark")
       THEN IF second = "" THEN resolved("Invalid bookmark selection format", "", Undefined)
            ELSE IF index = Num("NaN") THEN resolved("Invalid bookmark index", "", Undefined)
            ELSE IF ~Truthy(bookmark) THEN resolved("Invalid bookmark selection", "", Undefined)
            ELSE resolved("", "bookmark", bookmark)
       ELSE IF second = "" THEN resolved("Invalid workflow selection format", "", Undefined)
            ELSE IF ~Truthy(selectedWorkflow)
                 THEN resolved("Invalid workflow selection", "", Undefined)
            ELSE resolved("", "workflow", selectedWorkflow)

\* lines 594-642: the selection as a string, its part behind the first
\* colon as a number, and the bookmark at that index or the active workflow
\* with that id; error is the diagnostic of the check that fails, if any
ResolveSelection(selection, bookmarks, activeWorkflows) ==
    LET selectionStr == JSString(selection)
        second == IF Len(Split(selectionStr)) >= 2 THEN Split(selectionStr)[2] ELSE ""
        index == parseInt(second)
        bookmark == At(bookmarks, index)
        selectedWorkflow == FindWorkflow(activeWorkflows, index)
        resolved(message, path, x) == [error |-> message, path |-> path, value |-> x]
    IN IF StartsWith(selectionStr, "bookmark")
       THEN IF second = "" THEN resolved("Invalid bookmark selection format", "", Undefined)
            ELSE IF index = Num("NaN") THEN resolved("Invalid bookmark index", "", Undefined)
            ELSE IF ~Truthy(bookmark) THEN resolved("Invalid bookmark selection", "", Undefined)
            ELSE resolved("", "bookmark", bookmark)
       ELSE IF second = "" THEN resolved("Invalid workflow selection format", "", Undefined)
            ELSE IF index = Num("NaN") THEN resolved("Invalid workflow ID", "", Undefined)
            ELSE IF ~Truthy(selectedWorkflow)
                 THEN resolved("Invalid workflow selection", "", Undefined)
            ELSE resolved("", "workflow", selectedWorkflow)

SelectWorkflowOrBookmarkSelectedBranch ==
    /\ run.pc = "selectWorkflow"
    /\ \E r \in SelectOutcomes(WorkflowOptions) :
         IF r.threw THEN run' = Fatal(r.error)
         ELSE
         LET picked == [run EXCEPT !.selection = r.value]
             resolved == ResolveSelection(r.value, run.bookmarks.items,
                                          run.activeWorkflows.items)
         IN run' =
              IF resolved.error # ""
              THEN [picked EXCEPT !.pc = "exited", !.exitCode = 1,
                                  !.logged = Append(@, resolved.error)]
              ELSE IF resolved.path = "bookmark"
              THEN ToConfirmAndRun(
                     [picked EXCEPT !.selectedWorkflowName = Get(resolved.value, "workflow"),
                                    !.actualBranch = Str(JSString(run.branch)),
                                    !.inputGroup = Get(resolved.value, "inputs")])
              ELSE [picked EXCEPT
                      !.pc = "getWorkflowInputs",
                      !.selectedWorkflowName = Get(resolved.value, "name"),
                      !.actualBranch = Str(JSString(run.branch)),
                      !.phases = Append(@, "FetchInputSchema"),
                      !.cmds = Append(@, <<"gh", "workflow", "view",
                                           JSString(Get(resolved.value, "name")),
                                           "-R", JSString(run.repo),
                                           "--ref", JSString(run.branch), "--yaml">>)]
    /\ UNCHANGED <<call, ret, file, inst>>

\* the workflow-or-bookmark prompt settles: the selection is resolved to a
\* bookmark or to an active workflow, or the process exits
SelectWorkflowOrBookmark ==
    /\ run.pc = "selectWorkflow"
    /\ \E r \in SelectOutcomes(WorkflowOptions) :
         IF r.threw THEN run' = Fatal(r.error)
         ELSE
         LET picked == [run EXCEPT !.selection = r.value]
             resolved == ResolveSelection(r.value, run.bookmarks.items,
                                          run.activeWorkflows.items)
         IN run' =
              IF resolved.error # ""
              THEN [picked EXCEPT !.pc = "exited", !.exitCode = 1,
                                  !.logged = Append(@, resolved.error)]
              ELSE IF resolved.path = "bookmark"
              THEN ToConfirmAndRun(
                     [picked EXCEPT !.selectedWorkflowName = Get(resolved.value, "workflow"),
                                    !.actualBranch = Get(resolved.value, "branch"),
                                    !.inputGroup = Get(resolved.value, "inputs")])
              ELSE [picked EXCEPT
                      !.pc = "getWorkflowInputs",
                      !.selectedWorkflowName = Get(resolved.value, "name"),
                      !.actualBranch = Str(JSString(run.branch)),
                      !.phases = Append(@, "FetchInputSchema"),
                      !.cmds = Append(@, <<"gh", "workflow", "view",
                                           JSString(Get(resolved.value, "name")),
                                           "-R", JSString(run.repo),
                                           "--ref", JSString(run.branch), "--yaml">>)]
    /\ UNCHANGED <<call, ret, file, inst>>

\* outro("Finished User Input Collection") up to await confirm: the group
\* has resolved to the results in r
ToSaveQuestion(r) ==
    [r EXCEPT !.pc = "confirmSave",
              !.inputGroup = r.results,
              !.phases = Append(@, "OptionallySaveBookmark"),
              !.prompts = Append(@, "Do you want to save this workflow configuration as a bookmark?")]

\* getWorkflowInputs settles; the run builds the prompts and awaits the
\* group, which resolves at once when it has no prompt
FetchInputSchema ==
    /\ run.pc = "getWorkflowInputs"
    /\ \E view \in ViewOutcomes :
         LET r == getWorkflowInputs(view)
             built == buildInputPrompts(r.value.items)
             collecting ==
                [run EXCEPT !.pc = "group", !.inputsArray = r.value,
                            !.createdGroup = built.createdGroup,
                            !.results = Obj(<<>>),
                            !.logged = @ \o built.logged,
                            !.phases = Append(@, "CollectInputs")]
         IN run' =
              IF r.threw
              THEN [Fatal(r.error) EXCEPT
                      !.failures = IF view.failed THEN Append(@, "view") ELSE @]
              ELSE IF built.createdGroup.items = <<>> THEN ToSaveQuestion(collecting)
              ELSE collecting
    /\ UNCHANGED <<call, ret, file, inst>>

\* what the prompt of a widget resolves to: text gives the initial value or
\* what was typed, select the value of an option, both the cancel symbol
PromptOutcomes(widget) ==
    IF widget.v = "text"
    THEN {[threw |-> FALSE, error |-> "", value |-> v] :
            v \in {widget.items[3], Str("staging"), Cancel}}
    ELSE SelectOutcomes(widget.items[2].items)

CollectInputsContinue ==
    /\ run.pc = "group"
    /\ LET prompt == ObjectEntries(run.createdGroup)[Len(run.results.items) + 1]
           asked == [run EXCEPT !.prompts = Append(@, JSString(Val(prompt).items[1]))]
       IN \E r \in PromptOutcomes(Val(prompt)) :
            run' =
              IF r.threw
              THEN [asked EXCEPT !.pc = "exited", !.exitCode = 1,
                                 !.logged = Append(@, r.error)]
              ELSE LET answered ==
                        [asked EXCEPT !.results =
                            ObjectSet(@, Key(prompt),
                                      IF r.value = Cancel THEN Str("canceled") ELSE r.value)]
                   IN IF Len(answered.results.items) = Len(run.createdGroup.items)
                      THEN ToSaveQuestion(answered)
                      ELSE answered
    /\ UNCHANGED <<call, ret, file, inst>>

\* group(): the next prompt of the group settles.  A cancelled prompt runs
\* onCancel, which ends the process; after the last prompt the group
\* resolves and the run awaits the save-bookmark question
CollectInputs ==
    /\ run.pc = "group"
    /\ LET prompt == ObjectEntries(run.createdGroup)[Len(run.results.items) + 1]
           asked == [run EXCEPT !.prompts = Append(@, JSString(Val(prompt).items[1]))]
       IN \E r \in PromptOutcomes(Val(prompt)) :
            run' =
              IF r.threw
              THEN [asked EXCEPT !.pc = "exited", !.exitCode = 1,
                                 !.logged = Append(@, r.error)]
              ELSE IF r.value = Cancel
              THEN [asked EXCEPT !.pc = "exited", !.exitCode = 0,
                                 !.results = ObjectSet(@, Key(prompt), Str("canceled")),
                                 !.logged = Append(@, "Operation cancelled.")]
              ELSE LET answered == [asked EXCEPT !.results = ObjectSet(@, Key(prompt), r.value)]
                   IN IF Len(answered.results.items) = Len(run.createdGroup.items)
                      THEN ToSaveQuestion(answered)
                      ELSE answered
    /\ UNCHANGED <<call, ret, file, inst>>

\* the save-bookmark question settles
AskSaveBookmark ==
    /\ run.pc = "confirmSave"
    /\ \E c \in ConfirmOutcomes :
         LET answered == [run EXCEPT !.shouldSaveBookmark = c]
         IN run' =
              IF Truthy(c)
              THEN [answered EXCEPT !.pc = "nickname",
                                    !.prompts = Append(@, "Enter a nickname for this bookmark:")]
              ELSE ToConfirmAndRun(answered)
    /\ UNCHANGED <<call, ret, file, inst>>

\* String.prototype.trim on the texts that are ever typed as a nickname
Trim(s) ==
    CASE s = " nightly " -> "nightly"
      [] s = "  " -> ""
      [] OTHER -> s

\* the validate callback of the nickname prompt: TRUE when it reports
\* "Nickname cannot be empty"
NicknameRejected(value) == value = "" \/ Trim(value) = ""

\* the nickname prompt resolves to a text its validation accepts, or to the
\* cancel symbol
NicknameOutcomes ==
    {Str(v) : v \in {v \in {"prod", " nightly ", "", "  "} : ~NicknameRejected(v)}}
    \cup {Cancel}

StringifiedInputsRaw(inputGroup) == ObjectFrom(ObjectEntries(inputGroup))

\* Object.fromEntries(Object.entries(inputGroup).map(([k, v]) => [k, String(v)]))
StringifiedInputs(inputGroup) ==
    ObjectFrom([i \in 1..Len(ObjectEntries(inputGroup)) |->
                  Entry(Key(ObjectEntries(inputGroup)[i]),
                        Str(JSString(Val(ObjectEntries(inputGroup)[i]))))])

AskNicknameUnchecked ==
    /\ run.pc = "nickname"
    /\ \E nickname \in NicknameOutcomes :
         LET answered == [run EXCEPT !.nickname = nickname]
             bookmarkToSave ==
                Obj(<<Entry("nickname", Str(Trim(nickname.v))),
                      Entry("workflow", run.selectedWorkflowName),
                      Entry("branch", run.actualBranch),
                      Entry("inputs", StringifiedInputs(run.inputGroup))>>)
         IN /\ run' = [answered EXCEPT !.pc = "saveBookmark",
                                       !.bookmarkToSave = bookmarkToSave,
                                       !.saves = @ + 1]
            /\ inst' = [inst EXCEPT !["first"] =
                          [@ EXCEPT !.pc = "readFile",
                                    !.repoName = JSString(run.repo),
                                    !.bookmark = bookmarkToSave]]
    /\ UNCHANGED <<call, ret, file>>

\* the nickname prompt settles; with a nickname the run calls saveBookmark
\* and awaits it
AskNickname ==
    /\ run.pc = "nickname"
    /\ \E nickname \in NicknameOutcomes :
         LET answered == [run EXCEPT !.nickname = nickname]
             bookmarkToSave ==
                Obj(<<Entry("nickname", Str(Trim(nickname.v))),
                      Entry("workflow", run.selectedWorkflowName),
                      Entry("branch", run.actualBranch),
                      Entry("inputs", StringifiedInputs(run.inputGroup))>>)
         IN IF nickname.t = "string" /\ Trim(nickname.v) # ""
            THEN /\ run' = [answered EXCEPT !.pc = "saveBookmark",
                                            !.bookmarkToSave = bookmarkToSave,
                                            !.saves = @ + 1]
                 /\ inst' = [inst EXCEPT !["first"] =
                               [@ EXCEPT !.pc = "readFile",
                                         !.repoName = JSString(run.repo),
                                         !.bookmark = bookmarkToSave]]
            ELSE /\ run' = ToConfirmAndRun(answered)
                 /\ inst' = inst
    /\ UNCHANGED <<call, ret, file>>

SaveBookmarkSettledFatal ==
    /\ run.pc = "saveBookmark"
    /\ inst["first"].pc \in {"done", "failed"}
    /\ run' = IF inst["first"].pc = "failed" THEN Fatal(inst["first"].error)
              ELSE ToConfirmAndRun(
                     [run EXCEPT !.logged = Append(@,
                         "Bookmark \"" \o JSString(run.nickname) \o "\" saved successfully!")])
    /\ UNCHANGED <<call, ret, file, inst>>

\* saveBookmark has resolved or rejected: either way a message is logged
\* and the run goes on
SaveBookmarkSettled ==
    /\ run.pc = "saveBookmark"
    /\ inst["first"].pc \in {"done", "failed"}
    /\ run' = ToConfirmAndRun(
                [run EXCEPT !.logged = Append(@,
                    IF inst["first"].pc = "done"
                    THEN "Bookmark \"" \o JSString(run.nickname) \o "\" saved successfully!"
                    ELSE "Failed to save bookmark: " \o inst["first"].error)])
    /\ UNCHANGED <<call, ret, file, inst>>

\* s.stop() up to await confirm
ToOpenQuestion(r) ==
    [r EXCEPT !.pc = "confirmOpen",
              !.phases = Append(@, "OptionallyOpenInBrowser"),
              !.prompts = Append(@, "Do you want to open the workflow in the web ui?")]

ConfirmAndRunReselect ==
    /\ run.pc = "confirmRun"
    /\ \E c \in ConfirmOutcomes :
         LET answered == [run EXCEPT !.shouldContinue = c]
         IN run' =
              IF Truthy(c)
              THEN [answered EXCEPT !.pc = "workflowRun",
                                    !.cmds = Append(@, <<"gh">> \o run.workflowRunArgs)]
              ELSE [answered EXCEPT !.pc = "selectWorkflow",
                                    !.phases = Append(@, "SelectWorkflowOrBookmark"),
                                    !.prompts = Append(@, "Select Workflow or Bookmark")]
    /\ UNCHANGED <<call, ret, file, inst>>

ConfirmAndRunExitOnDecline ==
    /\ run.pc = "confirmRun"
    /\ \E c \in ConfirmOutcomes :
         LET answered == [run EXCEPT !.shouldContinue = c]
         IN run' =
              IF Truthy(c)
              THEN [answered EXCEPT !.pc = "workflowRun",
                                    !.cmds = Append(@, <<"gh">> \o run.workflowRunArgs)]
              ELSE [answered EXCEPT !.pc = "exited", !.exitCode = 0]
    /\ UNCHANGED <<call, ret, file, inst>>

\* the confirmation settles; if (shouldContinue) the run command is issued
ConfirmAndRun ==
    /\ run.pc = "confirmRun"
    /\ \E c \in ConfirmOutcomes :
         LET answered == [run EXCEPT !.shouldContinue = c]
         IN run' =
              IF Truthy(c)
              THEN [answered EXCEPT !.pc = "workflowRun",
                                    !.cmds = Append(@, <<"gh">> \o run.workflowRunArgs)]
              ELSE ToOpenQuestion(answered)
    /\ UNCHANGED <<call, ret, file, inst>>

WorkflowRunSwallowed ==
    /\ run.pc = "workflowRun"
    /\ \E out \in ExecaOutcomes :
         run' = IF out.failed
                THEN ToOpenQuestion([run EXCEPT !.failures = Append(@, "run"),
                                                !.logged = Append(@, "ExecaError")])
                ELSE ToOpenQuestion([run EXCEPT !.logged = Append(@, "Done ! Result : ")])
    /\ UNCHANGED <<call, ret, file, inst>>

\* gh workflow run settles
WorkflowRun ==
    /\ run.pc = "workflowRun"
    /\ \E out \in ExecaOutcomes :
         run' = IF out.failed
                THEN [Fatal("ExecaError") EXCEPT !.failures = Append(@, "run")]
                ELSE ToOpenQuestion([run EXCEPT !.logged = Append(@, "Done ! Result : ")])
    /\ UNCHANGED <<call, ret, file, inst>>

\* outro("Done ! ..."): runWorkflowCreation resolves and the process ends
Done(r) ==
    [r EXCEPT !.pc = "done", !.exitCode = 0, !.phases = Append(@, "Done")]

\* the open-in-browser question settles
OptionallyOpenInBrowser ==
    /\ run.pc = "confirmOpen"
    /\ \E c \in ConfirmOutcomes :
         LET answered == [run EXCEPT !.shouldOpen = c]
         IN run' =
              IF Truthy(c)
              THEN [answered EXCEPT !.pc = "openWeb",
                                    !.cmds = Append(@, <<"gh", "workflow", "view",
                                                         JSString(run.selectedWorkflowName),
                                                         "-R", JSString(run.repo), "--web">>)]
              ELSE Done(answered)
    /\ UNCHANGED <<call, ret, file, inst>>

\* gh workflow view --web settles
OpenWeb ==
    /\ run.pc = "openWeb"
    /\ \E out \in ExecaOutcomes :
         run' = IF out.failed
                THEN [Fatal("ExecaError") EXCEPT !.failures = Append(@, "web")]
                ELSE Done(run)
    /\ UNCHANGED <<call, ret, file, inst>>

\* another run of the tool on the same file ("second") saves a bookmark of
\* repository a, from its read to its write, while this run waits at an
\* await (saves that overlap are the subject of Spec)
OtherRunSavesBookmark ==
    /\ inst["second"].pc = "idle"
    /\ LET text == readFile(file)
           r == saveBookmark(text.value, "a", BookmarkTest)
       IN /\ ~text.threw
          /\ ~r.threw
          /\ file' = r.value
          /\ inst' = [inst EXCEPT !["second"] =
                        [@ EXCEPT !.pc = "done", !.repoName = "a", !.bookmark = BookmarkTest,
                                  !.configText = text.value, !.written = r.value]]
    /\ UNCHANGED <<call, ret, run>>

\* the steps of this run, those of its saveBookmark ("first") among them,
\* and the save of the other run
NextRun ==
    \/ Start
    \/ LoginCheck
    \/ LoadConfig
    \/ SelectRepo
    \/ SelectBranch
    \/ ListWorkflows
    \/ SelectWorkflowOrBookmark
    \/ FetchInputSchema
    \/ CollectInputs
    \/ AskSaveBookmark
    \/ AskNickname
    \/ SaveBookmarkSettled
    \/ ConfirmAndRun
    \/ WorkflowRun
    \/ OptionallyOpenInBrowser
    \/ OpenWeb
    \/ SaveBookmarkRead("first")
    \/ SaveBookmarkWrite("first")
    \/ OtherRunSavesBookmark

SpecRun == InitRun /\ [][NextRun]_vars

----------------------------------------------------------------------------
(* Properties of the helpers, checked under SpecPure *)

Applied(fn) == call.fn = fn /\ ret.status # "pending"
Count(xs, x) == Cardinality({i \in DOMAIN xs : xs[i] = x})
Orderings(n) == {f \in [1..n -> 1..n] : \A i, j \in 1..n : f[i] = f[j] => i = j}

\* C1: buildWorkflowRunArgs returns the seven-element prefix workflow, run,
\* <workflow>, -R, <repo>, --ref, <branch>, then for each entry of the
\* inputs, in their iteration order, "-f" and "key=value"; 7 + 2n elements
\* in all, the prefix alone for no inputs.
C1_RunArgsShape ==
    Applied("buildWorkflowRunArgs") =>
        LET prefix == <<"workflow", "run", call.args[1], "-R", call.args[2],
                        "--ref", call.args[3]>>
            entries == ObjectEntries(call.args[4])
            n == Len(entries)
            r == ret.value
        IN /\ ret.status = "returned"
           /\ Len(r) = 7 + 2 * n
           /\ SubSeq(r, 1, 7) = prefix
           /\ \A i \in 1..n :
                /\ r[6 + 2 * i] = "-f"
                /\ r[7 + 2 * i] = Key(entries[i]) \o "=" \o JSString(Val(entries[i]))
           /\ (n = 0 => r = prefix)

C1_Witness ==
    /\ Applied("buildWorkflowRunArgs")
    /\ Len(call.args[4].items) = 2
    /\ ret.value[9] = "env=staging"
    /\ ret.value[11] = "debug=false"

\* C4: filterActiveWorkflows returns exactly the entries whose state is
\* "active", in their original relative order.
C4_ActiveSubsequence ==
    Applied("filterActiveWorkflows") =>
        /\ ret.status = "returned"
        /\ ret.value = SelectSeq(call.args[1], LAMBDA w : Get(w, "state") = Str("active"))

C4_Witness ==
    /\ Applied("filterActiveWorkflows")
    /\ call.args[1] = <<Workflow("b", "2", "active"), Workflow("B", "0", "Active"),
                        Workflow("a", "10", "active")>>
    /\ ret.value = <<Workflow("b", "2", "active"), Workflow("a", "10", "active")>>

\* C5: filterActiveWorkflows is idempotent: filtering its result again
\* gives the same list, element for element.
C5_FilterIdempotent ==
    Applied("filterActiveWorkflows") =>
        filterActiveWorkflows(ret.value) = ret.value

C5_Witness ==
    /\ Applied("filterActiveWorkflows")
    /\ Len(call.args[1]) = 3
    /\ Len(ret.value) = 2
    /\ ret.value[1] # ret.value[2]

\* C6: getRepoList returns the names of the repositories in ascending
\* code-unit order, the same multiset of names as the config holds,
\* whatever the order of the repositories in the config; the empty list
\* for no repositories.
C6_RepoListSorted ==
    Applied("getRepoList") =>
        LET repos == Get(call.args[1], "repos").items
            names == [i \in 1..Len(repos) |-> Get(repos[i], "name")]
            r == ret.value.items
        IN /\ ret.status = "returned"
           /\ Len(r) = Len(names)
           /\ \A x \in Range(names) \cup Range(r) : Count(r, x) = Count(names, x)
           /\ \A i, j \in 1..Len(r) : i < j => ~SortsBefore(r[j], r[i])
           /\ \A f \in Orderings(Len(repos)) :
                getRepoList(Config([i \in 1..Len(repos) |-> repos[f[i]]])) = ret.value
           /\ (repos = <<>> => r = <<>>)

C6_Witness ==
    /\ Applied("getRepoList")
    /\ ret.value = Arr(<<Str("B"), Str("ab")>>)
    /\ Get(Get(call.args[1], "repos").items[1], "name") = Str("ab")

\* C7: getBranchesForRepo and getBookmarksForRepo always return a list:
\* the stored list of the first repository of that name, the empty list
\* when no repository has the name or when the field is missing.
C7_LookupsDefaultToEmpty ==
    \A field \in {"branches", "bookmarks"} :
        Applied(IF field = "branches" THEN "getBranchesForRepo" ELSE "getBookmarksForRepo") =>
            LET repos == Get(call.args[1], "repos").items
                hits == {i \in 1..Len(repos) : Get(repos[i], "name") = Str(call.args[2])}
                first == CHOOSE i \in hits : \A h \in hits : i <= h
            IN /\ ret.status = "returned"
               /\ ret.value.t = "array"
               /\ hits = {} => ret.value.items = <<>>
               /\ hits # {} =>
                    IF Get(repos[first], field).t = "array"
                    THEN ret.value = Get(repos[first], field)
                    ELSE ret.value.items = <<>>

C7_Witness ==
    /\ Applied("getBookmarksForRepo")
    /\ Len(Get(call.args[1], "repos").items) = 2
    /\ \A i \in 1..2 : Get(Get(call.args[1], "repos").items[i], "name") = Str(call.args[2])
    /\ ret.value = Arr(<<BookmarkProd>>)
    /\ Get(Get(call.args[1], "repos").items[2], "bookmarks") = Arr(<<BookmarkTest, BookmarkProd>>)

\* the value of key k in a mapping node, an absent node if there is none
Child(n, k) ==
    IF n.y = "map" /\ \E i \in 1..Len(n.items) : n.items[i].v = k
    THEN n.items[CHOOSE i \in 1..Len(n.items) : n.items[i].v = k].items[1]
    ELSE [y |-> "absent", v |-> "", items |-> <<>>]

\* the workflow file has a dispatch trigger
HasDispatchTrigger(view) ==
    /\ ~view.failed
    /\ view.stdout.kind = "yaml"
    /\ \/ Child(view.stdout.doc, "on") = Plain("workflow_dispatch")
       \/ Child(Child(view.stdout.doc, "on"), "workflow_dispatch").y # "absent"

\* the input declarations of the dispatch trigger, in the order of the file
DeclaredInputs(view) ==
    Child(Child(Child(view.stdout.doc, "on"), "workflow_dispatch"), "inputs").items

\* C8: getWorkflowInputs yields one WorkflowInputSpec per declared input,
\* in declaration order: name is the key, type and required are copied,
\* default is the string form of the declared default or "" without one,
\* options is the declared list for type choice and absent otherwise.
C8_OneSpecPerDeclaredInput ==
    (Applied("getWorkflowInputs") /\ HasDispatchTrigger(call.args[1])
        /\ DeclaredInputs(call.args[1]) # <<>>) =>
        LET decl == DeclaredInputs(call.args[1])
            r == ret.value.items
        IN /\ ret.status = "returned"
           /\ Len(r) = Len(decl)
           /\ \A i \in 1..Len(decl) :
                LET d == decl[i].items[1]
                    dflt == Child(d, "default")
                IN /\ Get(r[i], "name") = Str(decl[i].v)
                   /\ Get(r[i], "type") = YamlToJS(Child(d, "type"))
                   /\ Get(r[i], "required") =
                        (IF Child(d, "required").y = "absent" THEN Undefined
                         ELSE YamlToJS(Child(d, "required")))
                   /\ Get(r[i], "default") =
                        (IF dflt.y = "absent" THEN Str("") ELSE Str(dflt.v))
                   /\ Get(r[i], "options") =
                        (IF Child(d, "type") = Plain("choice")
                         THEN YamlToJS(Child(d, "options")) ELSE Undefined)

\* C9: a dispatch trigger with an empty input map or with no input map
\* makes getWorkflowInputs return the empty list, without failing.
C9_NoInputsNoFailure ==
    (Applied("getWorkflowInputs") /\ HasDispatchTrigger(call.args[1])
        /\ DeclaredInputs(call.args[1]) = <<>>) =>
        /\ ret.status = "returned"
        /\ ret.value = Arr(<<>>)

RecognisedTypes ==
    {Str("string"), Str("number"), Str("environment"), Str("boolean"), Str("choice")}

\* C10: the keys of the map buildInputPrompts returns are the names of the
\* inputs of type string, number, environment, boolean or choice; an input
\* of another type gets no entry and takes no other entry away; every value
\* is a function and building executes no prompt; no inputs, empty map.
C10_PromptMapKeys ==
    Applied("buildInputPrompts") =>
        LET inputs == call.args[1]
            group == ret.value.createdGroup
        IN /\ ret.status = "returned"
           /\ {Key(e) : e \in Range(group.items)}
                = {Get(i, "name").v : i \in {x \in Range(inputs) : Get(x, "type") \in RecognisedTypes}}
           /\ \A e \in Range(group.items) : Val(e).t = "function"
           /\ ret.value.prompted = <<>>
           /\ (inputs = <<>> => group = Obj(<<>>))

C10_Witness ==
    /\ Applied("buildInputPrompts")
    /\ Len(call.args[1]) = 2
    /\ Get(call.args[1][1], "type") = Str("float")
    /\ Get(call.args[1][2], "type") = Str("choice")
    /\ Len(ret.value.createdGroup.items) = 1
    /\ ret.value.logged # <<>>

\* the lines of the display block before the inputs
DisplayHead(workflowName, repo, branch) ==
    <<"Running Workflow : " \o workflowName,
      "Repo             : " \o repo,
      "Branch           : " \o branch,
      "",
      "Inputs :">>

\* a key followed by the spaces that bring it to 15 characters, if any
PaddedTo15(k) == IF StringLength(k) >= 15 THEN k ELSE k \o Spaces(15 - StringLength(k))

\* C11 as stated: buildDisplayInfo returns 5 + n lines for n inputs: the
\* "Running Workflow : " line with the workflow name, the repo line, the
\* branch line, a blank line, the "Inputs :" header, then per input, in
\* iteration order, a line consisting of the key right-padded to at least
\* 15 characters, " : " and the value.
C11_DisplayLinesAsStated ==
    Applied("buildDisplayInfo") =>
        LET entries == ObjectEntries(call.args[4])
        IN /\ ret.status = "returned"
           /\ ret.value =
                Join(DisplayHead(call.args[1], call.args[2], call.args[3])
                     \o [i \in 1..Len(entries) |->
                           PaddedTo15(Key(entries[i])) \o " : " \o JSString(Val(entries[i]))],
                     "\n")

\* C11 amended: as above, each input line beginning with two spaces of
\* indentation before the padded key.
C11_DisplayLines ==
    Applied("buildDisplayInfo") =>
        LET entries == ObjectEntries(call.args[4])
        IN /\ ret.status = "returned"
           /\ ret.value =
                Join(DisplayHead(call.args[1], call.args[2], call.args[3])
                     \o [i \in 1..Len(entries) |->
                           "  " \o PaddedTo15(Key(entries[i])) \o " : "
                               \o JSString(Val(entries[i]))],
                     "\n")

C11_Witness ==
    /\ Applied("buildDisplayInfo")
    /\ ret.value = "Running Workflow : Deploy\nRepo             : owner/repo\n"
                      \o "Branch           : main\n\nInputs :\n"
                      \o "  10              : false\n"
                      \o "  deployment_target : prod"

\* C12: checkLogin returns true exactly when the auth-status subprocess
\* completed successfully, false on every failure of it (a non-zero exit
\* code, no process started), and never throws.
C12_LoginIsSubprocessSuccess ==
    Applied("checkLogin") =>
        /\ ret.status = "returned"
        /\ ret.value = (IF call.args[1].failed THEN Bool(FALSE) ELSE Bool(TRUE))

C12_Witness ==
    /\ Applied("checkLogin")
    /\ call.args[1].cause = "ENOENT"
    /\ ret = Returned(Bool(FALSE))

----------------------------------------------------------------------------
(* Properties of saveBookmark, checked under Spec *)

\* the bookmark list of the first repository called repoName in a config
\* text, the empty list if the repository has none
BookmarksIn(text, repoName) ==
    LET config == parseYaml(text).value
        stored == Get(Get(config, "repos").items[FindRepo(config, repoName)], "bookmarks")
    IN IF stored.t = "array" THEN stored.items ELSE <<>>

\* C2: after a successful saveBookmark the bookmark list of the repository
\* in the written config is its list in the file as read with the new
\* bookmark appended: prior bookmarks keep their places, nothing is
\* deduplicated.
C2_BookmarkAppended ==
    \A p \in Instances :
        inst[p].pc = "done" =>
            /\ inst[p].written.kind = "yaml"
            /\ FindRepo(parseYaml(inst[p].configText).value, inst[p].repoName) > 0
            /\ FindRepo(parseYaml(inst[p].written).value, inst[p].repoName)
                 = FindRepo(parseYaml(inst[p].configText).value, inst[p].repoName)
            /\ BookmarksIn(inst[p].written, inst[p].repoName)
                 = Append(BookmarksIn(inst[p].configText, inst[p].repoName), inst[p].bookmark)

C2_Witness ==
    \E p \in Instances :
        /\ inst[p].pc = "done"
        /\ inst[p].bookmark = BookmarkTest
        /\ BookmarksIn(inst[p].written, inst[p].repoName) = <<BookmarkTest, BookmarkTest>>
        /\ file = inst[p].written

\* C3: saveBookmark for a name that no repository of the config file has
\* fails with an error that contains the name, and the step writes nothing.
C3_NotFoundNoWrite ==
    [][\A p \in Instances :
          (/\ inst[p].pc = "update"
           /\ inst[p].configText.kind = "yaml"
           /\ FindRepo(parseYaml(inst[p].configText).value, inst[p].repoName) = 0
           /\ inst'[p] # inst[p])
          => /\ inst'[p].pc = "failed"
             /\ inst'[p].error = "Repository " \o inst[p].repoName \o " not found in config"
             /\ file' = file]_vars

C3_Witness ==
    \E p \in Instances :
        /\ inst[p].pc = "failed"
        /\ inst[p].repoName = "B"
        /\ inst[p].error = "Repository B not found in config"
        /\ inst[p].configText = file
        /\ Len(Get(parseYaml(file).value, "repos").items) = 2

\* C18: two saveBookmark operations on the same file can both read it
\* before either writes; both then complete, and the file holds the list
\* that was read plus only one of the two new bookmarks: an update is lost.
C18_LostUpdate ==
    \A p, q \in Instances :
        (/\ p # q
         /\ inst[p].pc = "done" /\ inst[q].pc = "done"
         /\ inst[p].repoName = inst[q].repoName
         /\ inst[p].configText = inst[q].configText)
        => /\ file \in {inst[p].written, inst[q].written}
           /\ \/ BookmarksIn(file, inst[p].repoName)
                   = Append(BookmarksIn(inst[p].configText, inst[p].repoName), inst[p].bookmark)
              \/ BookmarksIn(file, inst[p].repoName)
                   = Append(BookmarksIn(inst[p].configText, inst[p].repoName), inst[q].bookmark)

C18_Witness ==
    /\ inst["first"].pc = "done" /\ inst["second"].pc = "done"
    /\ inst["first"].configText = inst["second"].configText
    /\ inst["first"].repoName = "a" /\ inst["second"].repoName = "a"
    /\ inst["first"].bookmark = BookmarkProd /\ inst["second"].bookmark = BookmarkTest
    /\ BookmarksIn(inst["first"].configText, "a") = <<BookmarkProd>>
    /\ BookmarksIn(file, "a") = <<BookmarkProd, BookmarkTest>>

----------------------------------------------------------------------------
(* Properties of runWorkflowCreation, checked under SpecRun *)

\* the commands of the run whose third word is verb: gh auth status,
\* gh workflow list | view | run
CommandsOf(verb) == {i \in DOMAIN run.cmds : run.cmds[i][3] = verb}

\* the commands of the run that open the browser
WebCommands == {i \in DOMAIN run.cmds : run.cmds[i][Len(run.cmds[i])] = "--web"}

LastPhase == run.phases[Len(run.phases)]

\* C13: when checkLogin returns false the process ends with exit code 1
\* from the login phase: the config file is not read, no prompt is shown
\* and no workflow list, view or run command is issued in that run.
C13_LoginGate ==
    run.isLoggedIn = Bool(FALSE) =>
        /\ run.pc = "exited" /\ run.exitCode = 1
        /\ run.phases = <<"LoginCheck">>
        /\ run.config = Undefined
        /\ inst["first"].pc = "idle"
        /\ run.prompts = <<>>
        /\ run.cmds = << <<"gh", "auth", "status">> >>

C13_Witness ==
    /\ run.isLoggedIn = Bool(FALSE)
    /\ run.exitCode = 1
    /\ file.kind = "yaml"
    /\ inst["second"].pc = "done"

\* the selection is the value of the option of a bookmark
BookmarkSelected ==
    run.selection \in
        {Str("bookmark:" \o IndexString(i - 1)) : i \in 1..Len(run.bookmarks.items)}

\* the selection is the value of the option of an active workflow that has
\* a numeric id
WorkflowSelected ==
    run.selection \in
        {Str("workflow:" \o Get(w, "id").v) :
            w \in {w \in Range(run.activeWorkflows.items) : Get(w, "id").t = "number"}}

PhaseOrder ==
    <<"LoginCheck", "LoadConfig", "SelectRepo", "SelectBranch", "ListWorkflows",
      "SelectWorkflowOrBookmark", "FetchInputSchema", "CollectInputs",
      "OptionallySaveBookmark", "ConfirmAndRun", "OptionallyOpenInBrowser", "Done">>

Rank(phase) == CHOOSE i \in DOMAIN PhaseOrder : PhaseOrder[i] = phase

\* C14: the phases of a run are entered in the order LoginCheck, LoadConfig,
\* SelectRepo, SelectBranch, ListWorkflows, SelectWorkflowOrBookmark, then
\* on the workflow path only FetchInputSchema, CollectInputs,
\* OptionallySaveBookmark, then ConfirmAndRun, OptionallyOpenInBrowser,
\* Done: each at most once, none after a later one, none left out.
C14_PhasesInOrder ==
    /\ \A i, j \in DOMAIN run.phases :
         i < j => Rank(run.phases[i]) < Rank(run.phases[j])
    /\ run.phases # <<>> => run.phases[1] = "LoginCheck"
    /\ \A i \in 1..(Len(run.phases) - 1) :
         \/ Rank(run.phases[i + 1]) = Rank(run.phases[i]) + 1
         \/ /\ run.phases[i] = "SelectWorkflowOrBookmark"
            /\ run.phases[i + 1] = "ConfirmAndRun"
            /\ BookmarkSelected
    /\ (Range(run.phases) \cap {"FetchInputSchema", "CollectInputs", "OptionallySaveBookmark"} # {})
         => WorkflowSelected

C14_Witness ==
    /\ run.pc = "done"
    /\ run.phases = PhaseOrder

\* the grouped prompts were cancelled: the group marked an input cancelled
GroupCancelled ==
    /\ run.results.t = "object"
    /\ \E e \in Range(run.results.items) : Val(e) = Str("canceled")

\* C15: cancelling the grouped input prompts at any input ends the process
\* with exit code 0, in the input collection; the run has not saved a
\* bookmark and has issued no workflow run command.
C15_GroupCancelExitsZero ==
    GroupCancelled =>
        /\ run.pc = "exited" /\ run.exitCode = 0
        /\ LastPhase = "CollectInputs"
        /\ run.saves = 0 /\ inst["first"].pc = "idle"
        /\ CommandsOf("run") = {}

C15_Witness ==
    /\ GroupCancelled
    /\ Len(run.results.items) = 2
    /\ Val(run.results.items[1]) = Str("prod")
    /\ Val(run.results.items[2]) = Str("canceled")
    /\ run.exitCode = 0

\* the selection is the value of a bookmark option or of the option of an
\* active workflow that has a numeric id
SelectionResolves == BookmarkSelected \/ WorkflowSelected

\* C16: a selection that is cancelled or does not resolve to a bookmark
\* index or to the id of an active workflow ends the process with exit code
\* 1; no input schema is fetched, nothing is saved and no workflow run
\* command is issued in that run.
C16_BadSelectionExitsOne ==
    (run.selection # Undefined /\ ~SelectionResolves) =>
        /\ run.pc = "exited" /\ run.exitCode = 1
        /\ LastPhase = "SelectWorkflowOrBookmark"
        /\ CommandsOf("view") = {}
        /\ run.saves = 0 /\ inst["first"].pc = "idle"
        /\ CommandsOf("run") = {}

C16_Witness ==
    /\ run.selection = Cancel
    /\ run.exitCode = 1
    /\ run.logged[Len(run.logged)] = "Invalid workflow ID"
    /\ run.bookmarks.items # <<>>

OpenQuestion == "Do you want to open the workflow in the web ui?"

\* C17 as stated: after the confirmation is declined no run command is
\* issued, the open-in-browser question is asked and the run goes on to
\* Done, the process ending nowhere else.
C17_DeclineReachesDone ==
    run.shouldContinue = Bool(FALSE) =>
        /\ CommandsOf("run") = {}
        /\ OpenQuestion \in Range(run.prompts)
        /\ run.pc \in {"confirmOpen", "openWeb", "done"}

\* C17 amended: after the confirmation is declined no run command is
\* issued, the open-in-browser question is asked and the run goes on to
\* Done unless the open-in-browser command, once asked for, fails.
C17_DeclineSkipsRunOnly ==
    run.shouldContinue = Bool(FALSE) =>
        /\ CommandsOf("run") = {}
        /\ OpenQuestion \in Range(run.prompts)
        /\ \/ run.pc \in {"confirmOpen", "openWeb", "done"}
           \/ /\ run.pc = "exited" /\ run.exitCode = 1
              /\ Truthy(run.shouldOpen)
              /\ Len(run.cmds) \in WebCommands

C17_Witness ==
    /\ run.shouldContinue = Bool(FALSE)
    /\ run.shouldOpen = Bool(FALSE)
    /\ run.pc = "done"
    /\ LastPhase = "Done"

\* C19: the bookmark a run saves has the keys of the collected inputs, each
\* value the string form of the collected value, the name of the selected
\* workflow and the branch selected in the run; saved, it reads back so.
C19_SavedBookmarkFromRun ==
    run.saves > 0 =>
        LET b == inst["first"].bookmark
            stored == ObjectEntries(Get(b, "inputs"))
            collected == ObjectEntries(run.results)
        IN /\ {Key(e) : e \in Range(stored)} = {Key(e) : e \in Range(collected)}
           /\ \A e \in Range(stored) :
                /\ Val(e).t = "string"
                /\ Val(e).v = JSString(Get(run.results, Key(e)))
           /\ \E w \in Range(run.activeWorkflows.items) :
                /\ run.selection = Str("workflow:" \o Get(w, "id").v)
                /\ Get(b, "workflow") = Get(w, "name")
           /\ Get(b, "branch").t = "string"
           /\ Get(b, "branch").v = JSString(run.branch)
           /\ inst["first"].pc = "done" =>
                LET saved == BookmarksIn(inst["first"].written, inst["first"].repoName)
                IN saved[Len(saved)] = b

C19_Witness ==
    /\ run.saves = 1
    /\ inst["first"].pc = "done"
    /\ Get(run.results, "debug") = Bool(FALSE)
    /\ Get(Get(inst["first"].bookmark, "inputs"), "debug") = Str("false")
    /\ Get(inst["first"].bookmark, "branch") = Str("dev")
    /\ Get(inst["first"].bookmark, "nickname") = Str("nightly")

\* C20: a run calls saveBookmark at most once; when the call fails the
\* error is logged and the run goes on to ConfirmAndRun with the arguments
\* and the summary of the selected workflow, the selected branch and the
\* collected inputs; the process does not end on the failure.
C20_SaveFailureNotFatal ==
    /\ run.saves <= 1
    /\ (inst["first"].pc = "failed" /\ run.pc # "saveBookmark") =>
         /\ ("Failed to save bookmark: " \o inst["first"].error) \in Range(run.logged)
         /\ "ConfirmAndRun" \in Range(run.phases)
         /\ \E w \in Range(run.activeWorkflows.items) :
              /\ run.selection = Str("workflow:" \o Get(w, "id").v)
              /\ run.workflowRunArgs =
                   buildWorkflowRunArgs(Get(w, "name").v, JSString(run.repo),
                                        JSString(run.branch), run.results)
              /\ run.displayInfo =
                   buildDisplayInfo(Get(w, "name").v, JSString(run.repo),
                                    JSString(run.branch), run.results)
         /\ run.pc = "exited" => (CommandsOf("run") # {} \/ WebCommands # {})

C20_Witness ==
    /\ inst["first"].pc = "failed"
    /\ inst["first"].error = "Repository Symbol(clack:cancel) not found in config"
    /\ run.pc = "done"
    /\ CommandsOf("run") # {}

\* what failed, the command that was issued for it, and the phase it
\* belongs to
FailureCommands(what) ==
    CASE what = "list" -> CommandsOf("list")
      [] what = "view" -> CommandsOf("view") \ WebCommands
      [] what = "run" -> CommandsOf("run")
      [] what = "web" -> WebCommands
      [] OTHER -> {}

FailurePhase(what) ==
    CASE what = "config" -> "LoadConfig"
      [] what = "list" -> "ListWorkflows"
      [] what = "view" -> "FetchInputSchema"
      [] what = "run" -> "ConfirmAndRun"
      [] what = "web" -> "OptionallyOpenInBrowser"

ChosenBookmark ==
    run.bookmarks.items[CHOOSE i \in 1..Len(run.bookmarks.items) :
                            run.selection = Str("bookmark:" \o IndexString(i - 1))]

\* the prompts of a run other than those of the input group and of the
\* bookmark save
PlainPrompts ==
    {"Pick a repository:", "Pick a branch", "Select Workflow or Bookmark",
     run.displayInfo \o "\n\nDo you want to continue?", OpenQuestion}

\* C22: when a bookmark is selected the run arguments and the summary are
\* those of the bookmark's workflow, branch and inputs (whatever branch was
\* picked), the run command if issued carries these arguments, and the run
\* fetches no input schema, shows no input prompt, asks no save-bookmark
\* question and does not write the config file.
C22_BookmarkPath ==
    BookmarkSelected =>
        LET b == ChosenBookmark
            args == buildWorkflowRunArgs(Get(b, "workflow").v, JSString(run.repo),
                                         Get(b, "branch").v, Get(b, "inputs"))
        IN /\ run.workflowRunArgs = args
           /\ run.displayInfo =
                buildDisplayInfo(Get(b, "workflow").v, JSString(run.repo),
                                 Get(b, "branch").v, Get(b, "inputs"))
           /\ \A i \in CommandsOf("run") : run.cmds[i] = <<"gh">> \o args
           /\ CommandsOf("view") \subseteq WebCommands
           /\ run.inputsArray = Undefined /\ run.createdGroup = Undefined
           /\ run.results = Undefined
           /\ Range(run.prompts) \subseteq PlainPrompts
           /\ run.shouldSaveBookmark = Undefined /\ run.nickname = Undefined
           /\ run.saves = 0 /\ inst["first"].pc = "idle"

C22_Witness ==
    /\ run.selection = Str("bookmark:0")
    /\ run.branch = Str("dev")
    /\ CommandsOf("run") # {}
    /\ run.cmds[Len(run.cmds)] =
         <<"gh", "workflow", "run", "deploy.yml", "-R", "a", "--ref", "main",
           "-f", "env=prod", "-f", "debug=false">>
    /\ run.pc = "workflowRun"

\* the nickname prompt has settled without a nickname: cancelled, or blank
NoNickname ==
    /\ run.nickname # Undefined
    /\ (run.nickname.t # "string" \/ Trim(run.nickname.v) = "")

\* C24: saveBookmark is called only after the nickname prompt returned a
\* string that is not blank, and the bookmark it is given carries that
\* string trimmed, never an empty or blank nickname; after a cancelled or
\* blank nickname prompt saveBookmark is not called and the run is in or
\* past ConfirmAndRun.
C24_NoBlankNickname ==
    /\ run.saves > 0 =>
         /\ run.nickname.t = "string"
         /\ Trim(run.nickname.v) # ""
         /\ Get(inst["first"].bookmark, "nickname") = Str(Trim(run.nickname.v))
         /\ Get(inst["first"].bookmark, "nickname") \notin {Str(""), Str("  ")}
    /\ inst["first"].pc # "idle" => run.saves > 0
    /\ NoNickname =>
         /\ run.saves = 0 /\ inst["first"].pc = "idle"
         /\ "ConfirmAndRun" \in Range(run.phases)
         /\ run.pc = "exited" => (CommandsOf("run") # {} \/ WebCommands # {})

C24_Witness ==
    /\ run.nickname = Str(" nightly ")
    /\ inst["first"].pc = "done"
    /\ inst["first"].repoName = "a"
    /\ BookmarksIn(file, "a") = <<BookmarkProd, BookmarkTest, inst["first"].bookmark>>
    /\ Get(inst["first"].bookmark, "nickname") = Str("nightly")
    /\ run.pc = "confirmRun"

\* the bookmark list of every repository of the first text is the head of
\* the list of the same repository of the second
BookmarksKept(read, written) ==
    LET before == Get(parseYaml(read).value, "repos").items
        after == Get(parseYaml(written).value, "repos").items
        list(repo) == IF Get(repo, "bookmarks").t = "array"
                      THEN Get(repo, "bookmarks").items ELSE <<>>
    IN /\ Len(after) = Len(before)
       /\ \A i \in 1..Len(before) :
            /\ Len(list(after[i])) >= Len(list(before[i]))
            /\ SubSeq(list(after[i]), 1, Len(list(before[i]))) = list(before[i])

\* C25: the file changes in a step only when another run writes it or
\* when this run is inside saveBookmark, which it enters only after the
\* save question was not answered with no and a nickname was entered; the
\* text saveBookmark works on is the content of the file when it reads it,
\* not the config loaded at startup; and what it writes keeps every
\* bookmark of that text, those another run added since LoadConfig
\* included.
C25_SaveWritesFromReRead ==
    /\ [][file' # file =>
            \/ inst'["second"] # inst["second"]
            \/ /\ run.pc = "saveBookmark" /\ inst["first"].pc = "update"
               /\ Truthy(run.shouldSaveBookmark)
               /\ run.nickname.t = "string"]_vars
    /\ [][(inst["first"].pc = "readFile" /\ inst'["first"].pc = "update")
            => inst'["first"].configText = file]_vars
    /\ [](inst["first"].pc = "done" =>
            BookmarksKept(inst["first"].configText, inst["first"].written))
    /\ []((run.saves = 0 \/ run.shouldSaveBookmark = Bool(FALSE))
            => inst["first"].pc = "idle")

\* the other run added a bookmark after this run had loaded the config and
\* before it saved: the file has both
C25_Witness ==
    /\ inst["first"].pc = "done" /\ inst["second"].pc = "done"
    /\ inst["first"].repoName = "a"
    /\ run.bookmarks = Arr(<<BookmarkProd, BookmarkTest>>)
    /\ inst["first"].configText = inst["second"].written
    /\ file = inst["first"].written
    /\ BookmarksIn(file, "a")
         = <<BookmarkProd, BookmarkTest, BookmarkTest, inst["first"].bookmark>>

\* C27: the workflow run command is issued at most once in a run, and only
\* when the confirmation before it was answered with yes; after any other
\* outcome of that prompt, the cancel symbol included, it is not issued.
C27_RunOnlyOnYes ==
    /\ Cardinality(CommandsOf("run")) <= 1
    /\ CommandsOf("run") # {} => run.shouldContinue = Bool(TRUE)
    /\ (run.shouldContinue # Undefined /\ run.shouldContinue # Bool(TRUE))
         => CommandsOf("run") = {}

----------------------------------------------------------------------------
(* Further properties of saveBookmark, checked under Spec *)

\* the repositories of the config a text parses to
ReposIn(text) == Get(parseYaml(text).value, "repos").items

\* the keys of an object other than bookmarks
OtherKeys(o) == {Key(e) : e \in Range(ObjectEntries(o))} \ {"bookmarks"}

\* C23: a successful saveBookmark leaves the config as it read it except
\* for the bookmark list of the first repository with the name: the keys
\* of the config, the number and the order of the repositories, every
\* other repository whole, and the name and branches of that repository
\* are the same in the text written, and its earlier bookmarks are still
\* there and still first.
C23_OnlyTargetBookmarksChange ==
    \A p \in Instances :
        inst[p].pc = "done" =>
            LET before == ReposIn(inst[p].configText)
                after == ReposIn(inst[p].written)
                target == FindRepo(parseYaml(inst[p].configText).value, inst[p].repoName)
                kept == BookmarksIn(inst[p].configText, inst[p].repoName)
            IN /\ OtherKeys(parseYaml(inst[p].written).value)
                    = OtherKeys(parseYaml(inst[p].configText).value)
               /\ Len(after) = Len(before)
               /\ \A i \in 1..Len(before) : i # target => after[i] = before[i]
               /\ OtherKeys(after[target]) = OtherKeys(before[target])
               /\ \A k \in OtherKeys(before[target]) :
                    Get(after[target], k) = Get(before[target], k)
               /\ SubSeq(Get(after[target], "bookmarks").items, 1, Len(kept)) = kept

\* two repositories share the name, the second has a bookmark and keeps
\* just that one
C23_Witness ==
    \E p \in Instances :
        /\ inst[p].pc = "done"
        /\ inst[p].repoName = "a"
        /\ Len(ReposIn(inst[p].configText)) = 2
        /\ Get(ReposIn(inst[p].configText)[2], "name") = Str("a")
        /\ FindRepo(parseYaml(inst[p].configText).value, "a") = 1
        /\ Get(ReposIn(inst[p].written)[2], "bookmarks") = Arr(<<BookmarkProd>>)
        /\ Get(ReposIn(inst[p].written)[1], "bookmarks") = Arr(<<BookmarkTest>>)

\* C26: once saveBookmark(path, name, b) has written and the file holds
\* what it wrote, loadConfig of the file succeeds and getBookmarksForRepo
\* of the loaded config and the name returns a list that ends with b, also
\* when several repositories have the name.
C26_SaveThenLookup ==
    \A p \in Instances :
        (inst[p].pc = "done" /\ file = inst[p].written) =>
            LET loaded == loadConfig(file)
                found == getBookmarksForRepo(loaded.value, inst[p].repoName).items
            IN /\ ~loaded.threw
               /\ found # <<>>
               /\ found[Len(found)] = inst[p].bookmark

\* the name is that of two repositories and the second has another
\* bookmark last
C26_Witness ==
    \E p \in Instances :
        /\ inst[p].pc = "done" /\ file = inst[p].written
        /\ inst[p].repoName = "a" /\ inst[p].bookmark = BookmarkTest
        /\ {j \in 1..Len(ReposIn(file)) : Get(ReposIn(file)[j], "name") = Str("a")} = {1, 2}
        /\ Get(ReposIn(file)[2], "bookmarks") = Arr(<<BookmarkProd>>)
        /\ getBookmarksForRepo(loadConfig(file).value, "a") = Arr(<<BookmarkProd, BookmarkTest>>)

====
